---- MODULE Spec2Model ----
(***************************************************************************)
(* Model of the Altcraft React Native bridge: the JS facade                *)
(* (src/src/index.tsx), the Android bridge module (SdkModule.kt), and the  *)
(* two iOS bridge revisions (SdkModule.swift with the emitter-based event  *)
(* path, and the notification-based revision with its ObjC++ layer).       *)
(*                                                                         *)
(* The native SDK itself (AltcraftSDK, SDKEvents / Events, the push token  *)
(* functions) is an external collaborator.  It is modelled only by the     *)
(* slots the bridge writes into: one event subscriber slot (subscribe      *)
(* takes a callback, unsubscribe takes no argument), one provider slot per *)
(* credential type, and the initialization entry point with its callback.  *)
(***************************************************************************)
EXTENDS Integers, Sequences, FiniteSets, TLC

\* ------------------------------------------------------------------ bounds
MaxJsCalls == 3      \* facade calls (subscribeToEvents / unsubscribeFromEvent) per run
MaxEvents == 2       \* events the native SDK produces per run
MaxSetterCalls == 3  \* credential setter / ensureProvidersInstalled calls per run
MaxInitCalls == 2    \* initialize calls per run
MaxFireCalls == 2    \* fire-and-forget calls per run
MaxPromiseCalls == 2 \* promise-based calls per run
MaxCats == 2         \* entries of a category array
MaxStoreCalls == 3   \* setUserDefaultsValue calls per run
MaxReceivers == 2    \* entries of the push receiver array
MaxEmits == 5        \* SDKEventEmitter.emit calls per run
MaxDelivered == 3    \* events the JS channel delivers to the listener per run
MaxRaceCalls == 4    \* subscribeToEvents / unsubscribeFromEvent calls per run

\* --------------------------------------------------------------- constants
Handlers == {"h1", "h2"}
NoHandler == "none"
EventPlatforms == {"android", "iosEmitter", "iosNotification"}
ProviderPlatforms == {"android", "iosNotification"}
Callers == {"bridge", "main"}
Credentials == {"jwt", "fcm", "hms", "apns"}
NullToken == "<null>"
Tokens == {NullToken, "", "tok"}
NoProvider == "none"
StableProvider == "provider"
Unset == "unset"
ERR_INIT_INVALID_CONFIG == "ALTCRAFT_INIT_INVALID_CONFIG"
ERR_INIT_ERROR == "ALTCRAFT_INIT_ERROR"
\* apiUrl as the caller supplies it: key absent, null, empty, or a URL
ApiUrls == {"<missing>", "<null>", "", "https://api"}
\* how the native SDK's initialization ends: its callback reports success or
\* failure, or (a Kotlin call) it throws
InitOutcomes == {"success", "failure", "throws"}
FireAndForget == {"pushSubscribe", "pushSuspend", "pushUnSubscribe", "mobileEvent",
                  "takePush", "deliveryEvent", "openEvent", "subscribeToEvents",
                  "unsubscribeFromEvent"}

VARIABLES
  platform,           \* which bridge module is linked into the process
  \* ---- JS facade (index.tsx)
  eventsSubscription, \* id of the listener held by the facade, 0 = null
  listeners,          \* listeners registered on the NativeEventEmitter
  nextListener,       \* listener ids handed out so far
  jsHistory,          \* facade calls made so far (a handler name, or "unsub")
  jsError,            \* a facade call threw
  \* ---- native module queue: void bridge calls run asynchronously, in order
  callQueue,
  npc,                \* position of the native-module thread
  \* ---- native bridge state
  eventsSubscribed,   \* SdkModule.eventsSubscribed (iOS)
  gSdkEventsObserver, \* ObjC++ observer token is non-nil
  observers,          \* observers registered in NSNotificationCenter
  tokenProvidersInstalled,
  \* ---- native SDK event bus
  sdkSubscriber,      \* closure held by SDKEvents / Events, 0 = none
  subscribeCount,     \* SDK subscribe calls made (closure ids)
  emitted,            \* events produced so far
  cb,                 \* the SDK thread running the subscriber closure
  mainQueue,          \* blocks pending on the iOS main queue
  jsQueue,            \* events handed to the JS event channel, not yet dispatched
  \* ---- observation
  dispatchLog,        \* per dispatched event: the latest handler and who was invoked
  unsubReturned,      \* native unsubscribeFromEvent returned, no subscribe since
  \* ---- stable providers (iOS SdkModule, Android Rn*Provider objects)
  th,                 \* per calling thread: the setter it runs and where it is
  jwtProviderInstalled,
  value,              \* backing value per credential type (jwt / fcm / hms / apns)
  sdkProvider,        \* provider the native SDK holds per credential type
  jwtInstalls,        \* AltcraftSDK.setJWTProvider calls made by installJWTProviderIfNeeded
  tokenInstalls,      \* provider registrations made by installTokenProvidersIfNeeded
  lastSet,            \* value of the last completed setter call per credential type
  setterCalls,        \* setter / ensureProvidersInstalled calls started
  \* ---- initialize
  ipc,                \* position of the initialize call in progress
  cfg,                \* the config object and what the native SDK will answer
  nativeCalls,        \* native SDK calls made by the current initialize call
  promise,            \* the call's promise: pending, resolved, or the reject code
  settles,            \* times resolve / reject was invoked for the current call
  initCalls,          \* initialize calls started
  \* ---- fire-and-forget calls (Android)
  fcall,              \* the bridge method running and where it is
  callResults,        \* how each finished call ended: returned or threw
  sdkSeen,            \* fire-and-forget calls that reached the native SDK
  \* ---- promise-based calls
  pcalls,             \* the promise-based calls made so far, one record each
  sdkOps,             \* the native SDK functions invoked for them, in order
  \* ---- event payload mapping
  retrySubclass,      \* whether the SDK's retry-error class derives from its error class
  nativeEvent,        \* the native event handed to the subscriber
  payload,            \* the payload built from it for JS
  \* ---- string-map converter
  smInput,            \* the object given to toNativeStringMap
  smOutput,           \* what it returned
  smBy,               \* which copy of the function ran: none, utilities, legacy
  \* ---- response envelope mapping
  envelope,           \* the native ResponseWithHttpCode (or nil) to report
  jsResult,           \* the object built from it for JS
  mappedBy,           \* which mapper ran: none, android, ios
  \* ---- arguments handed to the SDK
  jsCall,             \* the pushSubscribe call made by the app, if any
  sdkCall,            \* the arguments the SDK's pushSubscribe received
  rnConfig,           \* the configuration object given to initialize, if any
  builderCall,        \* the arguments AltcraftConfiguration.Builder received
  \* ---- category conversion
  catsIn,             \* the category array passed by the app, or nil
  catsOut,            \* per conversion routine, the list it produced, once it ran
  \* ---- key-value storage
  udStore,            \* what the platform store holds under each key
  udLast,             \* per key, what the last call made with it carried
  udCalls,            \* number of setUserDefaultsValue calls made
  \* ---- push payload intake
  tpFacade,           \* which facade revision is loaded: receivers, forwardOnly
  registeredPushReceivers,\* the facade's receiver array
  tpPc,               \* position of takePush: idle, or dispatching at an index
  tpLog,              \* what the running or last takePush did, in order
  tpAtStart,          \* the receiver array when the last takePush was called
  tpPayload,          \* the payload of the last takePush
  \* ---- iOS event emitter buffer
  emShared,           \* SDKEventEmitter._shared is set
  emPending,          \* SDKEventEmitter.pending
  emMainQueue,        \* blocks waiting on the main dispatch queue
  emSent,             \* events passed to sendEvent, in order
  emEmitted,          \* number of emit calls made; events are numbered in call order
  \* ---- JS event listener
  lsHandler,          \* the handler of the listener the facade holds, or NoHandler
  lsExpected,         \* the handler given by the last subscribe / unsubscribe call
  lsLog,              \* per event the channel delivered, what the listener did
  \* ---- calls made on one promise
  stCall,             \* one promise-based bridge call: its position and the resolve / reject calls made on its promise
  \* ---- iOS module lock
  lkHolder,           \* the thread holding SdkModule.lock, or none
  lkSdk,              \* the SDK's thread: where it is inside a provider closure
  lkBridge,           \* the bridge thread: where it is inside a token setter
  lkTokens,           \* per credential, whether the module stores a token
  \* ---- iOS subscribe / unsubscribe from two threads
  rcSubscribed,       \* SdkModule.eventsSubscribed
  rcSdkActive,        \* SDKEvents.shared has a subscriber
  rcThreads,          \* per calling thread, the call it is in and where
  rcCalls             \* number of calls started

evVars == <<platform, eventsSubscription, listeners, nextListener, jsHistory, jsError,
            callQueue, npc, eventsSubscribed, gSdkEventsObserver, observers,
            tokenProvidersInstalled, sdkSubscriber, subscribeCount, emitted, cb,
            mainQueue, jsQueue, dispatchLog, unsubReturned>>

\* the event-forwarding state proper
evState == <<eventsSubscription, listeners, nextListener, jsHistory, jsError, callQueue,
             npc, eventsSubscribed, gSdkEventsObserver, observers, sdkSubscriber,
             subscribeCount, emitted, cb, mainQueue, jsQueue, dispatchLog, unsubReturned>>

prState == <<th, jwtProviderInstalled, value, sdkProvider, jwtInstalls, tokenInstalls,
             lastSet, setterCalls>>

inState == <<ipc, cfg, nativeCalls, promise, settles, initCalls>>

caState == <<fcall, callResults, sdkSeen>>

pmState == <<pcalls, sdkOps>>

\* the state of the promise-based calls and of the converters
pyState == <<retrySubclass, nativeEvent, payload>>

smState == <<smInput, smOutput, smBy>>

rsState == <<envelope, jsResult, mappedBy>>

agState == <<jsCall, sdkCall, rnConfig, builderCall>>

ctState == <<catsIn, catsOut>>

udState == <<udStore, udLast, udCalls>>

tpState == <<tpFacade, registeredPushReceivers, tpPc, tpLog, tpAtStart, tpPayload>>

emState == <<emShared, emPending, emMainQueue, emSent, emEmitted>>

lsState == <<lsHandler, lsExpected, lsLog>>

stState == <<stCall>>

lkState == <<lkHolder, lkSdk, lkBridge, lkTokens>>

rcState == <<rcSubscribed, rcSdkActive, rcThreads, rcCalls>>

extState == <<pmState, pyState, smState, rsState, agState, ctState, udState, tpState, emState, lsState, stState, lkState, rcState>>

\* what the event-forwarding steps leave alone
notEvents == <<prState, inState, caState, extState>>

\* what the provider steps leave alone
notProviders == <<inState, caState, extState>>

vars == <<evVars, prState, inState, caState, extState>>

\* ------------------------------------------------------------------ helpers
Last(s) == s[Len(s)]

IsIos == platform \in {"iosEmitter", "iosNotification"}

\* The handler of the most recent subscribeToEvents call that no
\* unsubscribeFromEvent call followed.
LatestHandler ==
  IF jsHistory # <<>> /\ Last(jsHistory) \in Handlers THEN Last(jsHistory) ELSE NoHandler

RECURSIVE InvokeAll(_)
\* NativeEventEmitter calls every registered listener, in registration order.
InvokeAll(ls) ==
  IF ls = {} THEN <<>>
  ELSE LET first == CHOOSE l \in ls : \A m \in ls : l.id <= m.id
       IN <<first.handler>> \o InvokeAll(ls \ {first})

CbIdle == [pc |-> "idle", ev |-> 0]

ThIdle == [pc |-> "idle", op |-> "none", arg |-> NullToken]

PrStateInit ==
  /\ th = [t \in Callers |-> ThIdle]
  /\ jwtProviderInstalled = FALSE
  /\ value = [c \in Credentials |-> NullToken]
  /\ sdkProvider = [c \in Credentials |-> NoProvider]
  /\ jwtInstalls = 0
  /\ tokenInstalls = 0
  /\ lastSet = [c \in Credentials |-> Unset]
  /\ setterCalls = 0

NoConfig == [apiUrl |-> "<missing>", buildOk |-> TRUE, outcome |-> "success"]

InStateInit ==
  /\ ipc = "idle"
  /\ cfg = NoConfig
  /\ nativeCalls = <<>>
  /\ promise = "none"
  /\ settles = 0
  /\ initCalls = 0

FcIdle == [op |-> "none", pc |-> "idle"]

PmStateInit ==
  /\ pcalls = <<>>
  /\ sdkOps = <<>>

NoEvent == [kind |-> "none", code |-> <<>>, message |-> "<null>"]

NoPayload == [type |-> "none", code |-> <<>>, message |-> "<null>"]

PyStateInit ==
  /\ retrySubclass = FALSE
  /\ nativeEvent = NoEvent
  /\ payload = NoPayload

\* a JS object or null: null, or the set of its <<key, value>> entries
NullMap == [null |-> TRUE, entries |-> {}]

SmStateInit ==
  /\ smInput = NullMap
  /\ smOutput = NullMap
  /\ smBy = "none"

\* native optionals and JS values, tagged
Nil == [tag |-> "nil"]
Some(x) == [tag |-> "some", v |-> x]
JsNull == [tag |-> "null"]
JsValue(x) == [tag |-> "value", v |-> x]
JsObject(f) == [tag |-> "object", fields |-> f]

RsStateInit ==
  /\ envelope = Nil
  /\ jsResult = JsNull
  /\ mappedBy = "none"

\* the category conversion routines of the repository
CatRoutines == {"ConverterKt", "SdkModuleKt", "ConverterSwift", "SdkModuleSwift"}

NotRun == [r \in CatRoutines |-> [ran |-> FALSE, list |-> Nil]]

CtStateInit ==
  /\ catsIn = Nil
  /\ catsOut = NotRun

UdStateInit ==
  /\ udStore = [k \in {"k", "j"} |-> "absent"]
  /\ udLast = [k \in {"k", "j"} |-> "none"]
  /\ udCalls = 0

TpIdle == [pc |-> "idle", idx |-> 0, own |-> FALSE]

TpStateInit ==
  /\ tpFacade = "receivers"
  /\ registeredPushReceivers = <<>>
  /\ tpPc = TpIdle
  /\ tpLog = <<>>
  /\ tpAtStart = Nil
  /\ tpPayload = "none"

EmStateInit ==
  /\ emShared = FALSE
  /\ emPending = <<>>
  /\ emMainQueue = <<>>
  /\ emSent = <<>>
  /\ emEmitted = 0

LsStateInit ==
  /\ lsHandler = NoHandler
  /\ lsExpected = NoHandler
  /\ lsLog = <<>>

StIdle == [op |-> "none", pc |-> "idle", resolves |-> 0, rejects |-> 0, callbacks |-> 0]

StStateInit ==
  /\ stCall = StIdle

LkIdle == [pc |-> "idle", cred |-> "none"]

LkStateInit ==
  /\ lkHolder = "none"
  /\ lkSdk = LkIdle
  /\ lkBridge = LkIdle
  /\ lkTokens = [c \in {"fcm", "hms", "apns"} |-> FALSE]

RcStateInit ==
  /\ rcSubscribed = FALSE
  /\ rcSdkActive = FALSE
  /\ rcThreads = [t \in {"t1", "t2"} |-> [pc |-> "idle", op |-> "none"]]
  /\ rcCalls = 0

AgStateInit ==
  /\ jsCall = Nil
  /\ sdkCall = Nil
  /\ rnConfig = Nil
  /\ builderCall = Nil

ExtStateInit ==
  /\ PmStateInit
  /\ PyStateInit
  /\ SmStateInit
  /\ RsStateInit
  /\ AgStateInit
  /\ RcStateInit
  /\ LkStateInit
  /\ StStateInit
  /\ LsStateInit
  /\ EmStateInit
  /\ TpStateInit
  /\ UdStateInit
  /\ CtStateInit

CaStateInit ==
  /\ fcall = FcIdle
  /\ callResults = <<>>
  /\ sdkSeen = 0

\* ------------------------------------------------------------ Init (events)
EvInit ==
  /\ PrStateInit
  /\ InStateInit
  /\ CaStateInit
  /\ ExtStateInit
  /\ platform \in EventPlatforms
  /\ eventsSubscription = 0
  /\ listeners = {}
  /\ nextListener = 0
  /\ jsHistory = <<>>
  /\ jsError = FALSE
  /\ callQueue = <<>>
  /\ npc = "idle"
  /\ eventsSubscribed = FALSE
  /\ gSdkEventsObserver = FALSE
  /\ observers = 0
  /\ tokenProvidersInstalled = FALSE
  /\ sdkSubscriber = 0
  /\ subscribeCount = 0
  /\ emitted = 0
  /\ cb = CbIdle
  /\ mainQueue = <<>>
  /\ jsQueue = <<>>
  /\ dispatchLog = <<>>
  /\ unsubReturned = FALSE

\* ------------------------------------------------------------- JS facade
\* eventsSubscription.remove(): the listener with this id leaves the emitter.
RemoveListener(ls, id) == {l \in ls : l.id # id}

\* A subscribeToEvents that adds its listener without removing the previous one.
SubscribeToEventsNoTeardown(h) ==
  /\ Len(jsHistory) < MaxJsCalls
  /\ callQueue' = Append(callQueue, "subscribe")
  /\ nextListener' = nextListener + 1
  /\ listeners' = listeners \cup {[id |-> nextListener + 1, handler |-> h]}
  /\ eventsSubscription' = nextListener + 1
  /\ jsHistory' = Append(jsHistory, h)
  /\ unsubReturned' = FALSE
  /\ UNCHANGED notEvents
  /\ UNCHANGED <<platform, jsError, npc, eventsSubscribed, gSdkEventsObserver, observers,
                 tokenProvidersInstalled, sdkSubscriber, subscribeCount, emitted, cb,
                 mainQueue, jsQueue, dispatchLog>>

\* index.tsx subscribeToEvents(handler)
subscribeToEvents(h) ==
  /\ Len(jsHistory) < MaxJsCalls
  /\ LET kept == IF eventsSubscription # 0
                 THEN RemoveListener(listeners, eventsSubscription)
                 ELSE listeners
     IN /\ callQueue' = Append(callQueue, "subscribe")
        /\ nextListener' = nextListener + 1
        /\ listeners' = kept \cup {[id |-> nextListener + 1, handler |-> h]}
        /\ eventsSubscription' = nextListener + 1
  /\ jsHistory' = Append(jsHistory, h)
  /\ unsubReturned' = FALSE
  /\ UNCHANGED notEvents
  /\ UNCHANGED <<platform, jsError, npc, eventsSubscribed, gSdkEventsObserver, observers,
                 tokenProvidersInstalled, sdkSubscriber, subscribeCount, emitted, cb,
                 mainQueue, jsQueue, dispatchLog>>

\* An unsubscribeFromEvent that removes and clears without the null check.
UnsubscribeFromEventUnguarded ==
  /\ Len(jsHistory) < MaxJsCalls
  /\ IF eventsSubscription # 0
     THEN /\ listeners' = RemoveListener(listeners, eventsSubscription)
          /\ eventsSubscription' = 0
          /\ callQueue' = Append(callQueue, "unsubscribe")
          /\ jsError' = jsError
     ELSE \* null.remove() throws before the native call is made
          /\ jsError' = TRUE
          /\ UNCHANGED <<listeners, eventsSubscription, callQueue>>
  /\ jsHistory' = Append(jsHistory, "unsub")
  /\ UNCHANGED notEvents
  /\ UNCHANGED <<platform, nextListener, npc, eventsSubscribed, gSdkEventsObserver,
                 observers, tokenProvidersInstalled, sdkSubscriber, subscribeCount,
                 emitted, cb, mainQueue, jsQueue, dispatchLog, unsubReturned>>

\* index.tsx unsubscribeFromEvent()
unsubscribeFromEvent ==
  /\ Len(jsHistory) < MaxJsCalls
  /\ IF eventsSubscription # 0
     THEN /\ listeners' = RemoveListener(listeners, eventsSubscription)
          /\ eventsSubscription' = 0
     ELSE UNCHANGED <<listeners, eventsSubscription>>
  /\ callQueue' = Append(callQueue, "unsubscribe")
  /\ jsHistory' = Append(jsHistory, "unsub")
  /\ UNCHANGED notEvents
  /\ UNCHANGED <<platform, nextListener, jsError, npc, eventsSubscribed,
                 gSdkEventsObserver, observers, tokenProvidersInstalled, sdkSubscriber,
                 subscribeCount, emitted, cb, mainQueue, jsQueue, dispatchLog,
                 unsubReturned>>

\* The JS thread takes the next event off the channel and the emitter calls
\* the registered listeners; each listener calls its handler (index.tsx 269-278).
JsDispatch ==
  /\ jsQueue # <<>>
  /\ jsQueue' = Tail(jsQueue)
  /\ dispatchLog' = Append(dispatchLog,
        [ev |-> Head(jsQueue), latest |-> LatestHandler, invoked |-> InvokeAll(listeners)])
  /\ UNCHANGED notEvents
  /\ UNCHANGED <<platform, eventsSubscription, listeners, nextListener, jsHistory, jsError,
                 callQueue, npc, eventsSubscribed, gSdkEventsObserver, observers,
                 tokenProvidersInstalled, sdkSubscriber, subscribeCount, emitted, cb,
                 mainQueue, unsubReturned>>

\* ------------------------------------------------- native module thread
\* unsubReturned after a native unsubscribeFromEvent returns: no
\* subscribeToEvents call has been made since (none waits in the queue).
ReturnedFromUnsubscribe == \A i \in 1..Len(callQueue) : callQueue[i] # "subscribe"

\* Android SdkModule.subscribeToEvents: Events.subscribe { sendEventToJs(it) }
AndroidSubscribeToEvents ==
  /\ platform = "android"
  /\ npc = "idle"
  /\ callQueue # <<>> /\ Head(callQueue) = "subscribe"
  /\ callQueue' = Tail(callQueue)
  /\ subscribeCount' = subscribeCount + 1
  /\ sdkSubscriber' = subscribeCount + 1
  /\ UNCHANGED notEvents
  /\ UNCHANGED <<platform, eventsSubscription, listeners, nextListener, jsHistory, jsError,
                 npc, eventsSubscribed, gSdkEventsObserver, observers,
                 tokenProvidersInstalled, emitted, cb, mainQueue, jsQueue, dispatchLog,
                 unsubReturned>>

\* Android SdkModule.unsubscribeFromEvent: Events.unsubscribe()
AndroidUnsubscribeFromEvent ==
  /\ platform = "android"
  /\ npc = "idle"
  /\ callQueue # <<>> /\ Head(callQueue) = "unsubscribe"
  /\ callQueue' = Tail(callQueue)
  /\ sdkSubscriber' = 0
  /\ unsubReturned' = ReturnedFromUnsubscribe
  /\ UNCHANGED notEvents
  /\ UNCHANGED <<platform, eventsSubscription, listeners, nextListener, jsHistory, jsError,
                 npc, eventsSubscribed, gSdkEventsObserver, observers,
                 tokenProvidersInstalled, subscribeCount, emitted, cb, mainQueue, jsQueue,
                 dispatchLog>>

\* -[Sdk subscribeToEvents] adding its observer without looking at the token
\* it already holds.
ObjcSubscribeToEventsAlwaysInstall ==
  /\ IsIos
  /\ npc = "idle"
  /\ callQueue # <<>> /\ Head(callQueue) = "subscribe"
  /\ callQueue' = Tail(callQueue)
  /\ IF platform = "iosNotification"
     THEN /\ gSdkEventsObserver' = TRUE
          /\ observers' = observers + 1
          /\ tokenProvidersInstalled' = TRUE
     ELSE UNCHANGED <<gSdkEventsObserver, observers, tokenProvidersInstalled>>
  /\ npc' = "sub_flag"
  /\ UNCHANGED notEvents
  /\ UNCHANGED <<platform, eventsSubscription, listeners, nextListener, jsHistory, jsError,
                 eventsSubscribed, sdkSubscriber, subscribeCount, emitted, cb, mainQueue,
                 jsQueue, dispatchLog, unsubReturned>>

\* ObjC++ -[Sdk subscribeToEvents], up to the call into Swift.  The
\* notification-based revision installs its observer first
\* (SdkInstallEventsObserverIfNeeded) and asks the Swift module to install
\* the token providers; the emitter-based Swift module has no
\* ensureProvidersInstalled selector, so EnsureProvidersInstalled returns.
ObjcSubscribeToEvents ==
  /\ IsIos
  /\ npc = "idle"
  /\ callQueue # <<>> /\ Head(callQueue) = "subscribe"
  /\ callQueue' = Tail(callQueue)
  /\ IF platform = "iosNotification"
     THEN /\ IF gSdkEventsObserver
             THEN UNCHANGED <<gSdkEventsObserver, observers>>
             ELSE /\ gSdkEventsObserver' = TRUE
                  /\ observers' = observers + 1
          /\ tokenProvidersInstalled' = TRUE
     ELSE UNCHANGED <<gSdkEventsObserver, observers, tokenProvidersInstalled>>
  /\ npc' = "sub_flag"
  /\ UNCHANGED notEvents
  /\ UNCHANGED <<platform, eventsSubscription, listeners, nextListener, jsHistory, jsError,
                 eventsSubscribed, sdkSubscriber, subscribeCount, emitted, cb, mainQueue,
                 jsQueue, dispatchLog, unsubReturned>>

\* A subscribeToEvents that sets the flag and never subscribes to the SDK.
SwiftSubscribeFlagWithoutSdk ==
  /\ npc = "sub_flag"
  /\ eventsSubscribed' = TRUE
  /\ npc' = "idle"
  /\ UNCHANGED notEvents
  /\ UNCHANGED <<platform, eventsSubscription, listeners, nextListener, jsHistory, jsError,
                 callQueue, gSdkEventsObserver, observers, tokenProvidersInstalled,
                 sdkSubscriber, subscribeCount, emitted, cb, mainQueue, jsQueue,
                 dispatchLog, unsubReturned>>

\* Swift SdkModule.subscribeToEvents, the part under the lock:
\* already = eventsSubscribed; if !already { eventsSubscribed = true }
SwiftSubscribeFlag ==
  /\ npc = "sub_flag"
  /\ IF eventsSubscribed
     THEN /\ npc' = "idle"
          /\ UNCHANGED eventsSubscribed
     ELSE /\ eventsSubscribed' = TRUE
          /\ npc' = "sub_sdk"
  /\ UNCHANGED notEvents
  /\ UNCHANGED <<platform, eventsSubscription, listeners, nextListener, jsHistory, jsError,
                 callQueue, gSdkEventsObserver, observers, tokenProvidersInstalled,
                 sdkSubscriber, subscribeCount, emitted, cb, mainQueue, jsQueue,
                 dispatchLog, unsubReturned>>

\* Swift SdkModule.subscribeToEvents: SDKEvents.shared.subscribe { ... }
SwiftSubscribeSdk ==
  /\ npc = "sub_sdk"
  /\ subscribeCount' = subscribeCount + 1
  /\ sdkSubscriber' = subscribeCount + 1
  /\ npc' = "idle"
  /\ UNCHANGED notEvents
  /\ UNCHANGED <<platform, eventsSubscription, listeners, nextListener, jsHistory, jsError,
                 callQueue, eventsSubscribed, gSdkEventsObserver, observers,
                 tokenProvidersInstalled, emitted, cb, mainQueue, jsQueue, dispatchLog,
                 unsubReturned>>

\* ObjC++ -[Sdk unsubscribeFromEvent], up to the call into Swift.
ObjcUnsubscribeFromEvent ==
  /\ IsIos
  /\ npc = "idle"
  /\ callQueue # <<>> /\ Head(callQueue) = "unsubscribe"
  /\ callQueue' = Tail(callQueue)
  /\ tokenProvidersInstalled' = (tokenProvidersInstalled \/ platform = "iosNotification")
  /\ npc' = "unsub_flag"
  /\ UNCHANGED notEvents
  /\ UNCHANGED <<platform, eventsSubscription, listeners, nextListener, jsHistory, jsError,
                 eventsSubscribed, gSdkEventsObserver, observers, sdkSubscriber,
                 subscribeCount, emitted, cb, mainQueue, jsQueue, dispatchLog,
                 unsubReturned>>

\* Swift SdkModule.unsubscribeFromEvent: eventsSubscribed = false, under the lock
SwiftUnsubscribeFlag ==
  /\ npc = "unsub_flag"
  /\ eventsSubscribed' = FALSE
  /\ npc' = "unsub_sdk"
  /\ UNCHANGED notEvents
  /\ UNCHANGED <<platform, eventsSubscription, listeners, nextListener, jsHistory, jsError,
                 callQueue, gSdkEventsObserver, observers, tokenProvidersInstalled,
                 sdkSubscriber, subscribeCount, emitted, cb, mainQueue, jsQueue,
                 dispatchLog, unsubReturned>>

\* Swift SdkModule.unsubscribeFromEvent: SDKEvents.shared.unsubscribe().  The
\* emitter-based path returns to JS here; the notification-based ObjC++
\* layer still has its observer to remove.
SwiftUnsubscribeSdk ==
  /\ npc = "unsub_sdk"
  /\ sdkSubscriber' = 0
  /\ IF platform = "iosNotification"
     THEN /\ npc' = "unsub_observer"
          /\ UNCHANGED unsubReturned
     ELSE /\ npc' = "idle"
          /\ unsubReturned' = ReturnedFromUnsubscribe
  /\ UNCHANGED notEvents
  /\ UNCHANGED <<platform, eventsSubscription, listeners, nextListener, jsHistory, jsError,
                 callQueue, eventsSubscribed, gSdkEventsObserver, observers,
                 tokenProvidersInstalled, subscribeCount, emitted, cb, mainQueue, jsQueue,
                 dispatchLog>>

\* ObjC++ SdkRemoveEventsObserverIfNeeded
SdkRemoveEventsObserverIfNeeded ==
  /\ npc = "unsub_observer"
  /\ IF gSdkEventsObserver
     THEN /\ observers' = observers - 1
          /\ gSdkEventsObserver' = FALSE
     ELSE UNCHANGED <<observers, gSdkEventsObserver>>
  /\ npc' = "idle"
  /\ unsubReturned' = ReturnedFromUnsubscribe
  /\ UNCHANGED notEvents
  /\ UNCHANGED <<platform, eventsSubscription, listeners, nextListener, jsHistory, jsError,
                 callQueue, eventsSubscribed, tokenProvidersInstalled, sdkSubscriber,
                 subscribeCount, emitted, cb, mainQueue, jsQueue, dispatchLog>>

\* ------------------------------------------------------ SDK event thread
\* The SDK produces an event and calls the subscriber closure it holds.
SdkEmitEvent ==
  /\ emitted < MaxEvents
  /\ sdkSubscriber # 0
  /\ cb.pc = "idle"
  /\ emitted' = emitted + 1
  /\ cb' = [pc |-> "entered", ev |-> emitted + 1]
  /\ UNCHANGED notEvents
  /\ UNCHANGED <<platform, eventsSubscription, listeners, nextListener, jsHistory, jsError,
                 callQueue, npc, eventsSubscribed, gSdkEventsObserver, observers,
                 tokenProvidersInstalled, sdkSubscriber, subscribeCount, mainQueue,
                 jsQueue, dispatchLog, unsubReturned>>

\* Android closure: sendEventToJs(event) ends in RCTDeviceEventEmitter.emit
sendEventToJs ==
  /\ platform = "android"
  /\ cb.pc = "entered"
  /\ jsQueue' = Append(jsQueue, cb.ev)
  /\ cb' = CbIdle
  /\ UNCHANGED notEvents
  /\ UNCHANGED <<platform, eventsSubscription, listeners, nextListener, jsHistory, jsError,
                 callQueue, npc, eventsSubscribed, gSdkEventsObserver, observers,
                 tokenProvidersInstalled, sdkSubscriber, subscribeCount, emitted,
                 mainQueue, dispatchLog, unsubReturned>>

\* iOS emitter-based closure: SDKEventEmitter.emit off the main thread is
\* DispatchQueue.main.async { deliver() }
SDKEventEmitterEmit ==
  /\ platform = "iosEmitter"
  /\ cb.pc = "entered"
  /\ mainQueue' = Append(mainQueue, cb.ev)
  /\ cb' = CbIdle
  /\ UNCHANGED notEvents
  /\ UNCHANGED <<platform, eventsSubscription, listeners, nextListener, jsHistory, jsError,
                 callQueue, npc, eventsSubscribed, gSdkEventsObserver, observers,
                 tokenProvidersInstalled, sdkSubscriber, subscribeCount, emitted, jsQueue,
                 dispatchLog, unsubReturned>>

\* iOS notification-based closure: "If unsubscribed meanwhile - ignore":
\* reads eventsSubscribed under the lock and returns when it is false.
ClosureCheckSubscribed ==
  /\ platform = "iosNotification"
  /\ cb.pc = "entered"
  /\ cb' = IF eventsSubscribed THEN [cb EXCEPT !.pc = "checked"] ELSE CbIdle
  /\ UNCHANGED notEvents
  /\ UNCHANGED <<platform, eventsSubscription, listeners, nextListener, jsHistory, jsError,
                 callQueue, npc, eventsSubscribed, gSdkEventsObserver, observers,
                 tokenProvidersInstalled, sdkSubscriber, subscribeCount, emitted,
                 mainQueue, jsQueue, dispatchLog, unsubReturned>>

RECURSIVE Copies(_, _)
Copies(n, e) == IF n = 0 THEN <<>> ELSE <<e>> \o Copies(n - 1, e)

\* iOS notification-based closure: NotificationCenter.default.post; every
\* installed observer's block is put on the main operation queue.
ClosurePostNotification ==
  /\ platform = "iosNotification"
  /\ cb.pc = "checked"
  /\ mainQueue' = mainQueue \o Copies(observers, cb.ev)
  /\ cb' = CbIdle
  /\ UNCHANGED notEvents
  /\ UNCHANGED <<platform, eventsSubscription, listeners, nextListener, jsHistory, jsError,
                 callQueue, npc, eventsSubscribed, gSdkEventsObserver, observers,
                 tokenProvidersInstalled, sdkSubscriber, subscribeCount, emitted, jsQueue,
                 dispatchLog, unsubReturned>>

\* ------------------------------------------------------- iOS main thread
\* The next block on the main queue runs: deliver() -> emitter.sendEvent in
\* the emitter-based revision, the observer block -> SdkEmitEventToJS in the
\* notification-based one.  Either hands the event to the JS event channel.
MainQueueDeliver ==
  /\ mainQueue # <<>>
  /\ mainQueue' = Tail(mainQueue)
  /\ jsQueue' = Append(jsQueue, Head(mainQueue))
  /\ UNCHANGED notEvents
  /\ UNCHANGED <<platform, eventsSubscription, listeners, nextListener, jsHistory, jsError,
                 callQueue, npc, eventsSubscribed, gSdkEventsObserver, observers,
                 tokenProvidersInstalled, sdkSubscriber, subscribeCount, emitted, cb,
                 dispatchLog, unsubReturned>>

\* ------------------------------------------------------------ Next (events)
EvNext ==
  \/ \E h \in Handlers : subscribeToEvents(h)
  \/ unsubscribeFromEvent
  \/ JsDispatch
  \/ AndroidSubscribeToEvents
  \/ AndroidUnsubscribeFromEvent
  \/ ObjcSubscribeToEvents
  \/ SwiftSubscribeFlag
  \/ SwiftSubscribeSdk
  \/ ObjcUnsubscribeFromEvent
  \/ SwiftUnsubscribeFlag
  \/ SwiftUnsubscribeSdk
  \/ SdkRemoveEventsObserverIfNeeded
  \/ SdkEmitEvent
  \/ sendEventToJs
  \/ SDKEventEmitterEmit
  \/ ClosureCheckSubscribed
  \/ ClosurePostNotification
  \/ MainQueueDeliver

SpecEvents == EvInit /\ [][EvNext]_vars


\* =============================================== stable providers / setters
\* Init: the process has made no event-forwarding call; the setters are
\* called from the native-module thread and, on iOS, from the main thread
\* (AppDelegate calls SdkModule.shared.setAPNS).
EvStateInit ==
  /\ eventsSubscription = 0
  /\ listeners = {}
  /\ nextListener = 0
  /\ jsHistory = <<>>
  /\ jsError = FALSE
  /\ callQueue = <<>>
  /\ npc = "idle"
  /\ eventsSubscribed = FALSE
  /\ gSdkEventsObserver = FALSE
  /\ observers = 0
  /\ sdkSubscriber = 0
  /\ subscribeCount = 0
  /\ emitted = 0
  /\ cb = CbIdle
  /\ mainQueue = <<>>
  /\ jsQueue = <<>>
  /\ dispatchLog = <<>>
  /\ unsubReturned = FALSE

PrInit ==
  /\ platform \in ProviderPlatforms
  /\ tokenProvidersInstalled = FALSE
  /\ EvStateInit
  /\ PrStateInit
  /\ InStateInit
  /\ CaStateInit
  /\ ExtStateInit

CredentialOf(op) ==
  CASE op = "setJWT" -> "jwt"
    [] op = "setFCM" -> "fcm"
    [] op = "setHMS" -> "hms"
    [] op = "setAPNS" -> "apns"
    [] OTHER -> "none"

IosSetters == {"setJWT", "setFCM", "setHMS", "setAPNS"}
AndroidSetters == {"setJWT", "setFCM", "setHMS"}

\* token == nil || token?.isEmpty == true (Swift); the Android setters test
\* token.isNullOrBlank(), which agrees on the values used here.
IsNilOrEmpty(v) == v = NullToken \/ v = ""

\* What each thread calls.  Every bridge method runs on the native-module
\* thread (Sdk.mm: setJwt -> setJWT:, the token setters, and
\* EnsureProvidersInstalled at the head of every method); the iOS main thread
\* calls SdkModule.shared.setAPNS from the AppDelegate.
CallsOf(t) ==
  IF t = "bridge" THEN IosSetters \cup {"ensure"} ELSE {"setAPNS"}

\* A caller enters a setter (or ensureProvidersInstalled, arg unused).
\* iOS: setJWT starts with installJWTProviderIfNeeded, the token setters and
\* ensureProvidersInstalled with installTokenProvidersIfNeeded.
\* Android: setJwt / setAndroidFcmToken / setAndroidHmsToken start with the
\* Rn*Provider update.
BeginCall(t, op, v) ==
  /\ th[t].pc = "idle"
  /\ setterCalls < MaxSetterCalls
  /\ setterCalls' = setterCalls + 1
  /\ op \in CallsOf(t)
  /\ IF platform = "android"
     THEN /\ t = "bridge"
          /\ op \in AndroidSetters
          /\ th' = [th EXCEPT ![t] = [pc |-> "a_store", op |-> op, arg |-> v]]
     ELSE /\ op \in IosSetters \cup {"ensure"}
          /\ (op = "ensure" => v = NullToken)
          /\ th' = [th EXCEPT ![t] = [pc |-> IF op = "setJWT" THEN "jwt_check" ELSE "tok_check",
                                      op |-> op, arg |-> v]]
  /\ UNCHANGED notProviders
  /\ UNCHANGED <<platform, tokenProvidersInstalled, evState, jwtProviderInstalled, value,
                 sdkProvider, jwtInstalls, tokenInstalls, lastSet>>

\* installJWTProviderIfNeeded: lock; already = jwtProviderInstalled; unlock;
\* if already { return }
installJWTProviderIfNeeded_Check(t) ==
  /\ th[t].pc = "jwt_check"
  /\ th' = [th EXCEPT ![t].pc = IF jwtProviderInstalled THEN "jwt_store" ELSE "jwt_install"]
  /\ UNCHANGED notProviders
  /\ UNCHANGED <<platform, tokenProvidersInstalled, evState, jwtProviderInstalled, value,
                 sdkProvider, jwtInstalls, tokenInstalls, lastSet, setterCalls>>

\* installJWTProviderIfNeeded: AltcraftSDK.shared.setJWTProvider(provider: jwtProvider)
installJWTProviderIfNeeded_Install(t) ==
  /\ th[t].pc = "jwt_install"
  /\ sdkProvider' = [sdkProvider EXCEPT !["jwt"] = StableProvider]
  /\ jwtInstalls' = jwtInstalls + 1
  /\ th' = [th EXCEPT ![t].pc = "jwt_flag"]
  /\ UNCHANGED notProviders
  /\ UNCHANGED <<platform, tokenProvidersInstalled, evState, jwtProviderInstalled, value,
                 tokenInstalls, lastSet, setterCalls>>

\* installJWTProviderIfNeeded: lock; jwtProviderInstalled = true; unlock
installJWTProviderIfNeeded_Flag(t) ==
  /\ th[t].pc = "jwt_flag"
  /\ jwtProviderInstalled' = TRUE
  /\ th' = [th EXCEPT ![t].pc = "jwt_store"]
  /\ UNCHANGED notProviders
  /\ UNCHANGED <<platform, tokenProvidersInstalled, evState, value, sdkProvider,
                 jwtInstalls, tokenInstalls, lastSet, setterCalls>>

\* setJWT: lock; jwt = token; unlock; return
setJWT_Store(t) ==
  /\ th[t].pc = "jwt_store"
  /\ value' = [value EXCEPT !["jwt"] = th[t].arg]
  /\ lastSet' = [lastSet EXCEPT !["jwt"] = th[t].arg]
  /\ th' = [th EXCEPT ![t] = ThIdle]
  /\ UNCHANGED notProviders
  /\ UNCHANGED <<platform, tokenProvidersInstalled, evState, jwtProviderInstalled,
                 sdkProvider, jwtInstalls, tokenInstalls, setterCalls>>

\* installTokenProvidersIfNeeded: lock; already = tokenProvidersInstalled;
\* unlock; if already { return }
installTokenProvidersIfNeeded_Check(t) ==
  /\ th[t].pc = "tok_check"
  /\ th' = [th EXCEPT ![t] =
              IF ~tokenProvidersInstalled THEN [@ EXCEPT !.pc = "tok_install"]
              ELSE IF @.op = "ensure" THEN ThIdle
              ELSE [@ EXCEPT !.pc = "tok_store"]]
  /\ UNCHANGED notProviders
  /\ UNCHANGED <<platform, tokenProvidersInstalled, evState, jwtProviderInstalled, value,
                 sdkProvider, jwtInstalls, tokenInstalls, lastSet, setterCalls>>

\* installTokenProvidersIfNeeded: push.setFCMTokenProvider(fcmProvider);
\* push.setHMSTokenProvider(hmsProvider); push.setAPNSTokenProvider(apnsProvider)
installTokenProvidersIfNeeded_Install(t) ==
  /\ th[t].pc = "tok_install"
  /\ sdkProvider' = [c \in Credentials |->
                       IF c = "jwt" THEN sdkProvider[c] ELSE StableProvider]
  /\ tokenInstalls' = tokenInstalls + 1
  /\ th' = [th EXCEPT ![t].pc = "tok_flag"]
  /\ UNCHANGED notProviders
  /\ UNCHANGED <<platform, tokenProvidersInstalled, evState, jwtProviderInstalled, value,
                 jwtInstalls, lastSet, setterCalls>>

\* installTokenProvidersIfNeeded: lock; tokenProvidersInstalled = true; unlock
installTokenProvidersIfNeeded_Flag(t) ==
  /\ th[t].pc = "tok_flag"
  /\ tokenProvidersInstalled' = TRUE
  /\ th' = [th EXCEPT ![t] = IF @.op = "ensure" THEN ThIdle ELSE [@ EXCEPT !.pc = "tok_store"]]
  /\ UNCHANGED notProviders
  /\ UNCHANGED <<platform, evState, jwtProviderInstalled, value, sdkProvider, jwtInstalls,
                 tokenInstalls, lastSet, setterCalls>>

\* setFCM / setHMS / setAPNS: lock(); fcm = token; unlock()
setToken_Store(t) ==
  /\ th[t].pc = "tok_store"
  /\ value' = [value EXCEPT ![CredentialOf(th[t].op)] = th[t].arg]
  /\ th' = [th EXCEPT ![t].pc = "tok_register"]
  /\ UNCHANGED notProviders
  /\ UNCHANGED <<platform, tokenProvidersInstalled, evState, jwtProviderInstalled,
                 sdkProvider, jwtInstalls, tokenInstalls, lastSet, setterCalls>>

\* setFCM / setHMS / setAPNS: nil or empty -> push.setXTokenProvider(nil),
\* otherwise push.setXTokenProvider(xProvider); return
setToken_Register(t) ==
  /\ th[t].pc = "tok_register"
  /\ LET c == CredentialOf(th[t].op)
     IN /\ sdkProvider' = [sdkProvider EXCEPT ![c] =
                             IF IsNilOrEmpty(th[t].arg) THEN NoProvider ELSE StableProvider]
        /\ lastSet' = [lastSet EXCEPT ![c] = th[t].arg]
  /\ th' = [th EXCEPT ![t] = ThIdle]
  /\ UNCHANGED notProviders
  /\ UNCHANGED <<platform, tokenProvidersInstalled, evState, jwtProviderInstalled, value,
                 jwtInstalls, tokenInstalls, setterCalls>>

\* Android setJwt / setAndroidFcmToken / setAndroidHmsToken:
\* RnXProvider.clear() for a null or blank token, else RnXProvider.setToken(token)
AndroidSetter_Store(t) ==
  /\ th[t].pc = "a_store"
  /\ value' = [value EXCEPT ![CredentialOf(th[t].op)] =
                 IF IsNilOrEmpty(th[t].arg) THEN NullToken ELSE th[t].arg]
  /\ th' = [th EXCEPT ![t].pc = "a_register"]
  /\ UNCHANGED notProviders
  /\ UNCHANGED <<platform, tokenProvidersInstalled, evState, jwtProviderInstalled,
                 sdkProvider, jwtInstalls, tokenInstalls, lastSet, setterCalls>>

\* Android setters: setXProvider(null) for a null or blank token, else
\* setXProvider(RnXProvider); return
AndroidSetter_Register(t) ==
  /\ th[t].pc = "a_register"
  /\ LET c == CredentialOf(th[t].op)
     IN /\ sdkProvider' = [sdkProvider EXCEPT ![c] =
                             IF IsNilOrEmpty(th[t].arg) THEN NoProvider ELSE StableProvider]
        /\ lastSet' = [lastSet EXCEPT ![c] = th[t].arg]
  /\ th' = [th EXCEPT ![t] = ThIdle]
  /\ UNCHANGED notProviders
  /\ UNCHANGED <<platform, tokenProvidersInstalled, evState, jwtProviderInstalled, value,
                 jwtInstalls, tokenInstalls, setterCalls>>

PrNext ==
  \E t \in Callers :
    \/ \E op \in IosSetters \cup {"ensure"}, v \in Tokens : BeginCall(t, op, v)
    \/ installJWTProviderIfNeeded_Check(t)
    \/ installJWTProviderIfNeeded_Install(t)
    \/ installJWTProviderIfNeeded_Flag(t)
    \/ setJWT_Store(t)
    \/ installTokenProvidersIfNeeded_Check(t)
    \/ installTokenProvidersIfNeeded_Install(t)
    \/ installTokenProvidersIfNeeded_Flag(t)
    \/ setToken_Store(t)
    \/ setToken_Register(t)
    \/ AndroidSetter_Store(t)
    \/ AndroidSetter_Register(t)

SpecProviders == PrInit /\ [][PrNext]_vars

\* ================================================================ initialize
InInit ==
  /\ platform \in EventPlatforms
  /\ tokenProvidersInstalled = FALSE
  /\ EvStateInit
  /\ PrStateInit
  /\ InStateInit
  /\ CaStateInit
  /\ ExtStateInit

\* what the initialize steps leave alone
notInit == <<platform, evState, th, jwtProviderInstalled, value, jwtInstalls, lastSet,
             setterCalls, caState, extState>>

\* SdkConvertAltcraftConfigToNSDictionary: dict[@"apiUrl"] = apiUrl ?: @""
SdkConvertApiUrl(a) == IF a \in {"<missing>", "<null>"} THEN "" ELSE a

\* guard let apiUrl = dict["apiUrl"] as? String, !apiUrl.isEmpty
SwiftApiUrlOk(a) == a \notin {"<missing>", "<null>", ""}

\* !config.hasKey("apiUrl") || config.isNull("apiUrl") -> throw
AndroidApiUrlPresent(a) == a \notin {"<missing>", "<null>"}

\* JS initialize(config): NativeSDK.initialize(config) returns the promise;
\* the call is queued for the native module.
initialize(a, b, o) ==
  /\ ipc \in {"idle", "done"}
  /\ initCalls < MaxInitCalls
  /\ (IsIos => o # "throws")
  /\ initCalls' = initCalls + 1
  /\ cfg' = [apiUrl |-> a, buildOk |-> b, outcome |-> o]
  /\ nativeCalls' = <<>>
  /\ promise' = "pending"
  /\ settles' = 0
  /\ ipc' = IF platform = "android" THEN "android_initialize" ELSE "objc_initialize"
  /\ UNCHANGED <<tokenProvidersInstalled, sdkProvider, tokenInstalls>>
  /\ UNCHANGED notInit

\* ensureProvidersInstalled with no other caller running: the whole of
\* installTokenProvidersIfNeeded.  Only the notification-based Swift module
\* has the selector.
EnsureProvidersInstalledWhole ==
  IF platform = "iosNotification" /\ ~tokenProvidersInstalled
  THEN /\ tokenProvidersInstalled' = TRUE
       /\ sdkProvider' = [c \in Credentials |->
                            IF c = "jwt" THEN sdkProvider[c] ELSE StableProvider]
       /\ tokenInstalls' = tokenInstalls + 1
  ELSE UNCHANGED <<tokenProvidersInstalled, sdkProvider, tokenInstalls>>

InstallsNow == platform = "iosNotification" /\ ~tokenProvidersInstalled

\* ObjC++ -[Sdk initialize:resolve:reject:] on the native-module thread:
\* EnsureProvidersInstalled(module), config conversion, CallInitialize, which
\* re-dispatches to the main queue.
ObjcInitialize ==
  /\ ipc = "objc_initialize"
  /\ nativeCalls' = IF InstallsNow THEN Append(nativeCalls, "setTokenProviders")
                    ELSE nativeCalls
  /\ EnsureProvidersInstalledWhole
  /\ ipc' = "swift_initialize"
  /\ UNCHANGED <<cfg, promise, settles, initCalls>>
  /\ UNCHANGED notInit

\* An initialize that builds the configuration before it looks at apiUrl.
SwiftInitializeBuildFirst ==
  /\ ipc = "swift_initialize"
  /\ EnsureProvidersInstalledWhole
  /\ LET installed == IF InstallsNow THEN Append(nativeCalls, "setTokenProviders")
                      ELSE nativeCalls
         built == Append(installed, "buildConfiguration")
     IN IF ~cfg.buildOk \/ ~SwiftApiUrlOk(SdkConvertApiUrl(cfg.apiUrl))
        THEN /\ nativeCalls' = built
             /\ promise' = ERR_INIT_INVALID_CONFIG
             /\ settles' = settles + 1
             /\ ipc' = "done"
        ELSE /\ nativeCalls' = Append(built, "initialization")
             /\ ipc' = "sdk_initializing"
             /\ UNCHANGED <<promise, settles>>
  /\ UNCHANGED <<cfg, initCalls>>
  /\ UNCHANGED notInit

\* Swift SdkModule.initialize on the main thread, up to the call of
\* AltcraftSDK.shared.initialization.
SwiftInitialize ==
  /\ ipc = "swift_initialize"
  /\ EnsureProvidersInstalledWhole
  /\ LET installed == IF InstallsNow THEN Append(nativeCalls, "setTokenProviders")
                      ELSE nativeCalls
         built == Append(installed, "buildConfiguration")
     IN IF ~SwiftApiUrlOk(SdkConvertApiUrl(cfg.apiUrl))
        THEN \* reject(INVALID_CONFIG, "apiUrl is required")
             /\ nativeCalls' = installed
             /\ promise' = ERR_INIT_INVALID_CONFIG
             /\ settles' = settles + 1
             /\ ipc' = "done"
        ELSE IF ~cfg.buildOk
        THEN \* Builder ... .build() returned nil
             /\ nativeCalls' = built
             /\ promise' = ERR_INIT_INVALID_CONFIG
             /\ settles' = settles + 1
             /\ ipc' = "done"
        ELSE /\ nativeCalls' = Append(built, "initialization")
             /\ ipc' = "sdk_initializing"
             /\ UNCHANGED <<promise, settles>>
  /\ UNCHANGED <<cfg, initCalls>>
  /\ UNCHANGED notInit

\* iOS: the completion closure of AltcraftSDK.shared.initialization:
\* if ok { resolve(nil) } else { reject(INIT_ERROR, ...) }
SwiftInitializationCompletion ==
  /\ IsIos
  /\ ipc = "sdk_initializing"
  /\ promise' = IF cfg.outcome = "success" THEN "resolved" ELSE ERR_INIT_ERROR
  /\ settles' = settles + 1
  /\ ipc' = "done"
  /\ UNCHANGED <<cfg, nativeCalls, initCalls, tokenProvidersInstalled, sdkProvider,
                 tokenInstalls>>
  /\ UNCHANGED notInit

\* Android AltcraftRnInitializer.initialize: one try block around
\* AltcraftRnConfigMapper.buildConfiguration(config) and
\* AltcraftSDK.initialization(...); catch (e: Exception) rejects with
\* ALTCRAFT_INIT_INVALID_CONFIG.
AndroidInitialize ==
  /\ ipc = "android_initialize"
  /\ IF ~AndroidApiUrlPresent(cfg.apiUrl)
     THEN \* buildConfiguration throws IllegalArgumentException("apiUrl is required ...")
          /\ promise' = ERR_INIT_INVALID_CONFIG
          /\ settles' = settles + 1
          /\ ipc' = "done"
          /\ UNCHANGED nativeCalls
     ELSE IF ~cfg.buildOk
     THEN \* reading the remaining keys or AltcraftConfiguration.Builder(...).build() throws
          /\ nativeCalls' = Append(nativeCalls, "buildConfiguration")
          /\ promise' = ERR_INIT_INVALID_CONFIG
          /\ settles' = settles + 1
          /\ ipc' = "done"
     ELSE IF cfg.outcome = "throws"
     THEN \* AltcraftSDK.initialization throws inside the same try block
          /\ nativeCalls' = nativeCalls \o <<"buildConfiguration", "initialization">>
          /\ promise' = ERR_INIT_INVALID_CONFIG
          /\ settles' = settles + 1
          /\ ipc' = "done"
     ELSE /\ nativeCalls' = nativeCalls \o <<"buildConfiguration", "initialization">>
          /\ ipc' = "sdk_initializing"
          /\ UNCHANGED <<promise, settles>>
  /\ UNCHANGED <<cfg, initCalls, tokenProvidersInstalled, sdkProvider, tokenInstalls>>
  /\ UNCHANGED notInit

\* Android: the SDK's result callback: reactContext.runOnUiQueueThread { ... }
AndroidInitializationResult ==
  /\ platform = "android"
  /\ ipc = "sdk_initializing"
  /\ ipc' = "ui_queue"
  /\ UNCHANGED <<cfg, nativeCalls, promise, settles, initCalls, tokenProvidersInstalled,
                 sdkProvider, tokenInstalls>>
  /\ UNCHANGED notInit

\* Android: the block on the UI queue: result.isSuccess -> promise.resolve(null),
\* otherwise promise.reject("ALTCRAFT_INIT_ERROR", ...)
AndroidUiQueueSettle ==
  /\ ipc = "ui_queue"
  /\ promise' = IF cfg.outcome = "success" THEN "resolved" ELSE ERR_INIT_ERROR
  /\ settles' = settles + 1
  /\ ipc' = "done"
  /\ UNCHANGED <<cfg, nativeCalls, initCalls, tokenProvidersInstalled, sdkProvider,
                 tokenInstalls>>
  /\ UNCHANGED notInit

InNext ==
  \/ \E a \in ApiUrls, b \in BOOLEAN, o \in InitOutcomes : initialize(a, b, o)
  \/ ObjcInitialize
  \/ SwiftInitialize
  \/ SwiftInitializationCompletion
  \/ AndroidInitialize
  \/ AndroidInitializationResult
  \/ AndroidUiQueueSettle

SpecInit == InInit /\ [][InNext]_vars

\* ==================================================== fire-and-forget calls
CaInit ==
  /\ platform = "android"
  /\ tokenProvidersInstalled = FALSE
  /\ EvStateInit
  /\ PrStateInit
  /\ InStateInit
  /\ CaStateInit
  /\ ExtStateInit

notCalls == <<platform, tokenProvidersInstalled, evState, prState, inState, extState>>

\* The Android bridge methods whose body is try { ... } catch (_: Exception) { }
TryCatchOps == {"mobileEvent", "deliveryEvent", "openEvent"}

\* A fire-and-forget bridge method is entered and has converted its
\* arguments; takePush returns at once for a null or empty message.
FireAndForgetCall(op, emptyMessage) ==
  /\ fcall.pc = "idle"
  /\ Len(callResults) < MaxFireCalls
  /\ (emptyMessage => op = "takePush")
  /\ IF op = "takePush" /\ emptyMessage
     THEN /\ callResults' = Append(callResults, [op |-> op, result |-> "returned"])
          /\ UNCHANGED fcall
     ELSE /\ fcall' = [op |-> op, pc |-> "sdk"]
          /\ UNCHANGED callResults
  /\ UNCHANGED sdkSeen
  /\ UNCHANGED notCalls

\* The native SDK function returns.
SdkFunctionReturns ==
  /\ fcall.pc = "sdk"
  /\ sdkSeen' = sdkSeen + 1
  /\ callResults' = Append(callResults, [op |-> fcall.op, result |-> "returned"])
  /\ fcall' = FcIdle
  /\ UNCHANGED notCalls

\* The native SDK function raises an exception: caught and dropped where the
\* bridge method has a try block, propagated out of the method otherwise.
SdkFunctionThrows ==
  /\ fcall.pc = "sdk"
  /\ sdkSeen' = sdkSeen + 1
  /\ callResults' = Append(callResults,
        [op |-> fcall.op,
         result |-> IF fcall.op \in TryCatchOps THEN "returned" ELSE "threw"])
  /\ fcall' = FcIdle
  /\ UNCHANGED notCalls

CaNext ==
  \/ \E op \in FireAndForget, e \in BOOLEAN : FireAndForgetCall(op, e)
  \/ SdkFunctionReturns
  \/ SdkFunctionThrows

SpecCalls == CaInit /\ [][CaNext]_vars

\* ===================================================== promise-based calls
PromisePlatforms == {"android", "androidNewer", "iosEmitter", "iosNotification"}

PromiseOps == {"getPushToken", "setPushToken", "deleteDeviceToken", "forcedTokenUpdate",
               "changePushProviderPriorityList", "clear", "unSuspendPushSubscription",
               "getStatusOfLatestSubscription", "getStatusOfLatestSubscriptionForProvider",
               "getStatusForCurrentSubscription"}

\* the token functions only the full modules export
FullTokenOps == {"deleteDeviceToken", "forcedTokenUpdate", "changePushProviderPriorityList"}

OpsOf(pl) == IF pl \in {"android", "iosNotification"} THEN PromiseOps
             ELSE PromiseOps \ FullTokenOps

NoArg == "-"
ProviderArgs == {NullToken, "", "fcm"}
TokenArgs == {NullToken, "tok"}
ExceptionMessages == {"boom"}

IsAndroid(pl) == pl \in {"android", "androidNewer"}

\* the provider and token arguments an operation takes
ProviderArgsOf(op) ==
  IF op = "setPushToken" THEN {"", "fcm"}
  ELSE IF op = "deleteDeviceToken" THEN ProviderArgs
  ELSE {NoArg}

TokenArgsOf(op) == IF op = "setPushToken" THEN TokenArgs ELSE {NoArg}

\* The operations whose native SDK function reports through a completion
\* callback; the others report by returning.
CompletionOps(pl) ==
  IF IsAndroid(pl) THEN {"forcedTokenUpdate", "clear"}
  ELSE PromiseOps \ {"setPushToken", "changePushProviderPriorityList"}

\* The native SDK function a call invokes, with the token handed to it.
NativeFunction(pl, op, tok) ==
  IF op # "setPushToken" THEN [fn |-> op, token |-> NoArg]
  ELSE IF pl = "android"
       THEN IF tok = NullToken THEN [fn |-> "deleteDeviceToken", token |-> NoArg]
            ELSE [fn |-> "setPushToken", token |-> tok]
  ELSE IF pl = "iosNotification" THEN [fn |-> "setPushToken", token |-> tok]
  ELSE \* token ?: ""
       [fn |-> "setPushToken", token |-> IF tok = NullToken THEN "" ELSE tok]

\* What the bridge method rejects with before it reaches the SDK, or "" when
\* it lets the call through.
ValidationCode(pl, op, prov) ==
  IF op = "setPushToken" /\ prov = ""
     THEN IF IsAndroid(pl) THEN "setPushToken" ELSE "INVALID_PROVIDER"
  ELSE IF op = "deleteDeviceToken" /\ pl = "android" /\ prov = NullToken
     THEN "deleteDeviceToken"
  ELSE IF op = "deleteDeviceToken" /\ pl = "iosNotification" /\ prov # "fcm"
     THEN "INVALID_PROVIDER"
  ELSE ""

PmInit ==
  /\ platform \in PromisePlatforms
  /\ tokenProvidersInstalled = FALSE
  /\ EvStateInit
  /\ PrStateInit
  /\ InStateInit
  /\ CaStateInit
  /\ ExtStateInit

notPromises == <<platform, tokenProvidersInstalled, evState, prState, inState, caState,
                 pyState, smState, rsState, agState, ctState, udState, tpState, emState, lsState, stState, lkState, rcState>>

InFlight(c) == c.pc \in {"launched", "waiting"}

Settle(c, how, code, msg) ==
  [c EXCEPT !.pc = "done", !.promise = how, !.code = code, !.message = msg]

\* The bridge method on the native-module thread: argument checks, then the
\* coroutine is launched (Android) or the Swift method is reached (iOS).
PromiseBridgeMethod(op, prov, tok) ==
  /\ Len(pcalls) < MaxPromiseCalls
  /\ op \in OpsOf(platform)
  /\ prov \in ProviderArgsOf(op)
  /\ tok \in TokenArgsOf(op)
  /\ LET c == [op |-> op, provider |-> prov, token |-> tok, pc |-> "launched",
               promise |-> "pending", code |-> "", message |-> "",
               sdk |-> "not_called", thrown |-> "", siblings |-> {}]
         v == ValidationCode(platform, op, prov)
     IN pcalls' = Append(pcalls,
                         IF v = "" THEN c ELSE Settle(c, "rejected", v, "invalid provider"))
  /\ UNCHANGED sdkOps
  /\ UNCHANGED notPromises

Invocation(i) ==
  [call |-> i] @@ NativeFunction(platform, pcalls[i].op, pcalls[i].token)

\* The native SDK function returns and the call reports by returning:
\* promise.resolve(...) follows at once.
PromiseSdkReturns(i) ==
  /\ i \in 1..Len(pcalls)
  /\ pcalls[i].pc = "launched"
  /\ pcalls[i].op \notin CompletionOps(platform)
  /\ sdkOps' = Append(sdkOps, Invocation(i))
  /\ pcalls' = [pcalls EXCEPT ![i] =
                  Settle([@ EXCEPT !.sdk = "completed"], "resolved", "", "")]
  /\ UNCHANGED notPromises

\* A suspended call whose promise the bridge resolves as soon as the SDK
\* function has been entered.
PromiseSdkSuspendsResolved(i) ==
  /\ i \in 1..Len(pcalls)
  /\ pcalls[i].pc = "launched"
  /\ pcalls[i].op \in CompletionOps(platform)
  /\ sdkOps' = Append(sdkOps, Invocation(i))
  /\ pcalls' = [pcalls EXCEPT ![i] =
                  [Settle(@, "resolved", "", "") EXCEPT !.pc = "waiting", !.sdk = "running"]]
  /\ UNCHANGED notPromises

\* The native SDK function is entered with a completion callback and has
\* not called it yet: the promise stays pending.
PromiseSdkSuspends(i) ==
  /\ i \in 1..Len(pcalls)
  /\ pcalls[i].pc = "launched"
  /\ pcalls[i].op \in CompletionOps(platform)
  /\ sdkOps' = Append(sdkOps, Invocation(i))
  /\ pcalls' = [pcalls EXCEPT ![i] = [@ EXCEPT !.pc = "waiting", !.sdk = "running"]]
  /\ UNCHANGED notPromises

\* The SDK's completion callback fires: promise.resolve(...)
PromiseSdkCompletion(i) ==
  /\ i \in 1..Len(pcalls)
  /\ pcalls[i].pc = "waiting"
  /\ pcalls' = [pcalls EXCEPT ![i] =
                  Settle([@ EXCEPT !.sdk = "completed"], "resolved", "", "")]
  /\ UNCHANGED sdkOps
  /\ UNCHANGED notPromises

\* A failing call that takes the scope's other children down with it.
PromiseSdkThrowsCancelling(i, m) ==
  /\ IsAndroid(platform)
  /\ i \in 1..Len(pcalls)
  /\ pcalls[i].pc = "launched"
  /\ sdkOps' = Append(sdkOps, Invocation(i))
  /\ pcalls' = [j \in 1..Len(pcalls) |->
                  IF j = i
                  THEN Settle([pcalls[j] EXCEPT !.sdk = "threw", !.thrown = m,
                                 !.siblings = {k \in 1..Len(pcalls) :
                                                 k # i /\ InFlight(pcalls[k])}],
                              "rejected", pcalls[j].op, m)
                  ELSE IF InFlight(pcalls[j]) THEN [pcalls[j] EXCEPT !.pc = "cancelled"]
                  ELSE pcalls[j]]
  /\ UNCHANGED notPromises

\* A call that rejects with one code whatever the operation.
PromiseSdkThrowsGenericCode(i, m) ==
  /\ IsAndroid(platform)
  /\ i \in 1..Len(pcalls)
  /\ pcalls[i].pc = "launched"
  /\ sdkOps' = Append(sdkOps, Invocation(i))
  /\ pcalls' = [pcalls EXCEPT ![i] =
                  Settle([@ EXCEPT !.sdk = "threw", !.thrown = m,
                            !.siblings = {k \in 1..Len(pcalls) :
                                            k # i /\ InFlight(pcalls[k])}],
                         "rejected", "ERROR", m)]
  /\ UNCHANGED notPromises

\* Android: the native SDK function throws inside the try block;
\* catch (e: Exception) { promise.reject("<operation>", e) }
PromiseSdkThrows(i, m) ==
  /\ IsAndroid(platform)
  /\ i \in 1..Len(pcalls)
  /\ pcalls[i].pc = "launched"
  /\ sdkOps' = Append(sdkOps, Invocation(i))
  /\ pcalls' = [pcalls EXCEPT ![i] =
                  Settle([@ EXCEPT !.sdk = "threw", !.thrown = m,
                            !.siblings = {k \in 1..Len(pcalls) :
                                            k # i /\ InFlight(pcalls[k])}],
                         "rejected", @.op, m)]
  /\ UNCHANGED notPromises

PmNext ==
  \/ \E op \in PromiseOps, prov \in ProviderArgs \cup {NoArg}, tok \in TokenArgs \cup {NoArg} :
        PromiseBridgeMethod(op, prov, tok)
  \/ \E i \in 1..MaxPromiseCalls : PromiseSdkReturns(i)
  \/ \E i \in 1..MaxPromiseCalls : PromiseSdkSuspends(i)
  \/ \E i \in 1..MaxPromiseCalls : PromiseSdkCompletion(i)
  \/ \E i \in 1..MaxPromiseCalls, m \in ExceptionMessages : PromiseSdkThrows(i, m)

SpecPromises == PmInit /\ [][PmNext]_vars

\* ==================================================== event payload mapping
EventKinds == {"event", "error", "retryError"}
\* an optional Int: absent, or the one value
NullCode == <<>>
EventCodes == {NullCode, <<0>>, <<200>>}
NullMessage == "<null>"
EventMessages == {NullMessage, "msg"}

\* event.toString() / String(describing: ev): never empty
Rendering(e) == "Event(" \o e.kind \o ")"

\* `event is C` for the SDK's classes: every event is an Event, an error is
\* an Error, a retry error is a RetryError and, where the SDK derives that
\* class from its error class, an Error as well.
IsInstance(e, cls) ==
  \/ cls = "Event"
  \/ cls = "Error" /\ (e.kind = "error" \/ (e.kind = "retryError" /\ retrySubclass))
  \/ cls = "RetryError" /\ e.kind = "retryError"

\* Android: when (event) { is Error -> "error"; is RetryError -> "retryError";
\* else -> "event" }
AndroidEventType(e) ==
  IF IsInstance(e, "Error") THEN "error"
  ELSE IF IsInstance(e, "RetryError") THEN "retryError"
  ELSE "event"

\* iOS: if event is RetryEvent ... else if event is ErrorEvent ... else ...
SwiftEventType(e) ==
  IF IsInstance(e, "RetryError") THEN "retryError"
  ELSE IF IsInstance(e, "Error") THEN "error"
  ELSE "event"

\* Android sendEventToJs: code (putInt / putNull), message
\* (eventMessage ?: event.toString()), type.
AndroidEventPayload(e) ==
  [type |-> AndroidEventType(e),
   code |-> e.code,
   message |-> IF e.message = NullMessage THEN Rendering(e) ELSE e.message]

\* Swift toPayload (emitter-based module): message ?? ""
SwiftToPayload(e) ==
  [type |-> SwiftEventType(e),
   code |-> e.code,
   message |-> IF e.message = NullMessage THEN "" ELSE e.message]

\* Swift mapSdkEventToJs (notification-based module):
\* message ?? String(describing: ev)
SwiftMapSdkEventToJs(e) ==
  [type |-> SwiftEventType(e),
   code |-> e.code,
   message |-> IF e.message = NullMessage THEN Rendering(e) ELSE e.message]

PyInit ==
  /\ platform \in PromisePlatforms
  /\ tokenProvidersInstalled = FALSE
  /\ EvStateInit
  /\ PrStateInit
  /\ InStateInit
  /\ CaStateInit
  /\ PmStateInit
  /\ SmStateInit
  /\ RsStateInit
  /\ AgStateInit
  /\ RcStateInit
  /\ LkStateInit
  /\ StStateInit
  /\ LsStateInit
  /\ EmStateInit
  /\ TpStateInit
  /\ UdStateInit
  /\ CtStateInit
  /\ retrySubclass \in BOOLEAN
  /\ nativeEvent = NoEvent
  /\ payload = NoPayload

notPayload == <<platform, tokenProvidersInstalled, evState, prState, inState, caState,
                pmState, retrySubclass, smState, rsState, agState, ctState, udState, tpState, emState, lsState, stState, lkState, rcState>>

\* The native SDK hands an event to the subscriber.
SdkProducesEvent(k, c, m) ==
  /\ nativeEvent = NoEvent \/ payload # NoPayload
  /\ nativeEvent' = [kind |-> k, code |-> c, message |-> m]
  /\ payload' = NoPayload
  /\ UNCHANGED notPayload

AndroidBuildsPayload ==
  /\ IsAndroid(platform)
  /\ nativeEvent # NoEvent /\ payload = NoPayload
  /\ payload' = AndroidEventPayload(nativeEvent)
  /\ UNCHANGED nativeEvent
  /\ UNCHANGED notPayload

SwiftEmitterBuildsPayload ==
  /\ platform = "iosEmitter"
  /\ nativeEvent # NoEvent /\ payload = NoPayload
  /\ payload' = SwiftToPayload(nativeEvent)
  /\ UNCHANGED nativeEvent
  /\ UNCHANGED notPayload

SwiftNotificationBuildsPayload ==
  /\ platform = "iosNotification"
  /\ nativeEvent # NoEvent /\ payload = NoPayload
  /\ payload' = SwiftMapSdkEventToJs(nativeEvent)
  /\ UNCHANGED nativeEvent
  /\ UNCHANGED notPayload

PyNext ==
  \/ \E k \in EventKinds, c \in EventCodes, m \in EventMessages : SdkProducesEvent(k, c, m)
  \/ AndroidBuildsPayload
  \/ SwiftEmitterBuildsPayload
  \/ SwiftNotificationBuildsPayload

SpecPayload == PyInit /\ [][PyNext]_vars

\* ====================================================== string-map converter
MapKeys == {"a", "b"}

\* JS values by kind: null, undefined, "s", 1, true, 10n, {x: 1}, () => {},
\* Symbol()
JsValues == {"null", "undefined", "str", "num", "bool", "bigint", "obj", "fn", "sym"}

Undefined == "<undefined>"

JsMap(es) == [null |-> FALSE, entries |-> es]

\* every object over MapKeys, one value at most per key
JsObjects ==
  {JsMap({<<k, f[k]>> : k \in {x \in MapKeys : f[x] # "absent"}}) :
     f \in [MapKeys -> JsValues \cup {"absent"}]}

\* value == null
IsNullish(v) == v \in {"null", "undefined"}

\* String(value)
JsString(v) ==
  CASE v = "str" -> "s"
    [] v = "num" -> "1"
    [] v = "bool" -> "true"
    [] v = "bigint" -> "10"
    [] v = "obj" -> "[object Object]"
    [] v = "fn" -> "() => {}"
    [] v = "sym" -> "Symbol()"
    [] OTHER -> v

\* JSON.stringify(value): undefined, without throwing, for a function or a
\* symbol
JsonStringify(v) ==
  CASE v = "obj" -> "{\"x\":1}"
    [] v \in {"fn", "sym"} -> Undefined
    [] OTHER -> JsString(v)

\* the switch (typeof value) of Utilities.toNativeStringMap
UtilitiesStringOf(v) ==
  IF v = "str" THEN "s"
  ELSE IF v \in {"num", "bool", "bigint"} THEN JsString(v)
  ELSE JsonStringify(v)

\* Object.keys(out).length > 0 ? out : null
OutOrNull(es) == IF es = {} THEN NullMap ELSE JsMap(es)

\* Utilities.toNativeStringMap / NativeSdk.ts toNativeStringMap
UtilitiesToNativeStringMap(m) ==
  IF m.null THEN NullMap
  ELSE OutOrNull({<<e[1], UtilitiesStringOf(e[2])>> :
                    e \in {x \in m.entries : ~IsNullish(x[2])}})

\* the older index.tsx toNativeStringMap: out[k] = String(v)
LegacyToNativeStringMap(m) ==
  IF m.null THEN NullMap
  ELSE OutOrNull({<<e[1], JsString(e[2])>> :
                    e \in {x \in m.entries : ~IsNullish(x[2])}})

SmInit ==
  /\ platform = "android"
  /\ tokenProvidersInstalled = FALSE
  /\ EvStateInit
  /\ PrStateInit
  /\ InStateInit
  /\ CaStateInit
  /\ PmStateInit
  /\ PyStateInit
  /\ RsStateInit
  /\ AgStateInit
  /\ RcStateInit
  /\ LkStateInit
  /\ StStateInit
  /\ LsStateInit
  /\ EmStateInit
  /\ TpStateInit
  /\ UdStateInit
  /\ CtStateInit
  /\ smInput \in JsObjects \cup {NullMap}
  /\ smOutput = NullMap
  /\ smBy = "none"

notStringMap == <<platform, tokenProvidersInstalled, evState, prState, inState, caState,
                  pmState, pyState, rsState, agState, ctState, udState, tpState, emState, lsState, stState, lkState, rcState>>

CallUtilitiesToNativeStringMap ==
  /\ smBy = "none"
  /\ smOutput' = UtilitiesToNativeStringMap(smInput)
  /\ smBy' = "utilities"
  /\ UNCHANGED smInput
  /\ UNCHANGED notStringMap

CallLegacyToNativeStringMap ==
  /\ smBy = "none"
  /\ smOutput' = LegacyToNativeStringMap(smInput)
  /\ smBy' = "legacy"
  /\ UNCHANGED smInput
  /\ UNCHANGED notStringMap

SmNext ==
  \/ CallUtilitiesToNativeStringMap
  \/ CallLegacyToNativeStringMap

SpecStringMap == SmInit /\ [][SmNext]_vars

\* ================================================= response envelope mapping
Optional(S) == {Nil} \cup {Some(x) : x \in S}

SubscriptionDatas == [subscriptionId : Optional({"sub-1"})]
ProfileDatas == [id : Optional({"p-1"}), subscription : Optional(SubscriptionDatas)]
Responses == [error : Optional({0}), errorText : Optional({"text"}),
              profile : Optional(ProfileDatas)]
ResponsesWithHttpCode == [httpCode : Optional({200}), response : Optional(Responses)]

\* putInt / putString / putNull, nsNull(v): the value or an explicit null
Nullable(o) == IF o = Nil THEN JsNull ELSE JsValue(o.v)

MapSubscription(sub) ==
  JsObject([subscriptionId |-> Nullable(sub.subscriptionId)])

MapProfile(pr) ==
  JsObject([id |-> Nullable(pr.id),
            subscription |-> IF pr.subscription = Nil THEN JsNull
                             ELSE MapSubscription(pr.subscription.v)])

MapResponse(r) ==
  JsObject([error |-> Nullable(r.error),
            errorText |-> Nullable(r.errorText),
            profile |-> IF r.profile = Nil THEN JsNull ELSE MapProfile(r.profile.v)])

\* A mapper that leaves the response key out when there is no response.
ResponseWithHttpCodeOmittingNull(data) ==
  IF data.response = Nil
  THEN JsObject([httpCode |-> Nullable(data.httpCode)])
  ELSE JsObject([httpCode |-> Nullable(data.httpCode),
                 response |-> MapResponse(data.response.v)])

\* Android responseWithHttpCodeToWritableMap, for a non-null envelope
ResponseWithHttpCodeToWritableMap(data) ==
  IF data.response = Nil
  THEN JsObject([httpCode |-> Nullable(data.httpCode), response |-> JsNull])
  ELSE JsObject([httpCode |-> Nullable(data.httpCode),
                 response |-> MapResponse(data.response.v)])

\* Swift mapResponseWithHttp: "response": nsNull(r.response.map { mapResponse($0) })
SwiftMapResponseWithHttp(r) ==
  JsObject([httpCode |-> Nullable(r.httpCode),
            response |-> IF r.response = Nil THEN JsNull
                         ELSE MapResponse(r.response.v)])

RsInit ==
  /\ platform \in PromisePlatforms
  /\ tokenProvidersInstalled = FALSE
  /\ EvStateInit
  /\ PrStateInit
  /\ InStateInit
  /\ CaStateInit
  /\ PmStateInit
  /\ PyStateInit
  /\ SmStateInit
  /\ AgStateInit
  /\ RcStateInit
  /\ LkStateInit
  /\ StStateInit
  /\ LsStateInit
  /\ EmStateInit
  /\ TpStateInit
  /\ UdStateInit
  /\ CtStateInit
  /\ envelope \in Optional(ResponsesWithHttpCode)
  /\ jsResult = JsNull
  /\ mappedBy = "none"

notResponse == <<platform, tokenProvidersInstalled, evState, prState, inState, caState,
                 pmState, pyState, smState, agState, ctState, udState, tpState, emState, lsState, stState, lkState, rcState>>

\* Android: promise.resolve(responseWithHttpCodeToWritableMap(res))
AndroidResolvesStatus ==
  /\ IsAndroid(platform)
  /\ mappedBy = "none"
  /\ jsResult' = IF envelope = Nil THEN JsNull
                 ELSE ResponseWithHttpCodeToWritableMap(envelope.v)
  /\ mappedBy' = "android"
  /\ UNCHANGED envelope
  /\ UNCHANGED notResponse

\* iOS: guard let result else { resolve(NSNull()) }; resolve(mapResponseWithHttp(result))
SwiftResolvesStatus ==
  /\ ~IsAndroid(platform)
  /\ mappedBy = "none"
  /\ jsResult' = IF envelope = Nil THEN JsNull ELSE SwiftMapResponseWithHttp(envelope.v)
  /\ mappedBy' = "ios"
  /\ UNCHANGED envelope
  /\ UNCHANGED notResponse

RsNext ==
  \/ AndroidResolvesStatus
  \/ SwiftResolvesStatus

SpecResponse == RsInit /\ [][RsNext]_vars

\* ============================================ arguments handed to the SDK
\* sync as the app passes it: left out, null, true, false
JsSyncArgs == {"undefined", "null", "true", "false"}

\* replace / skipTriggers as the app passes them
JsBoolArgs == {"null", "true"}

\* profile field values used in subscribe calls: "s", 1, {x: 1}, null
SubscribeValues == {"str", "num", "obj", "null"}

SubscribeMaps ==
  {JsMap({<<k, f[k]>> : k \in {x \in MapKeys : f[x] # "absent"}}) :
     f \in [MapKeys -> SubscribeValues \cup {"absent"}]} \cup {NullMap}

CustomMaps == {NullMap, JsMap({<<"a", "str">>})}

\* index.tsx pushSubscribe: the default parameter value applies to a
\* left-out sync only; the two maps go through Utilities.toNativeStringMap
FacadePushSubscribe(sync, profileFields, customFields, replace, skipTriggers) ==
  [sync |-> IF sync = "undefined" THEN "true" ELSE sync,
   profileFields |-> UtilitiesToNativeStringMap(profileFields),
   customFields |-> UtilitiesToNativeStringMap(customFields),
   cats |-> "null",
   replace |-> replace,
   skipTriggers |-> skipTriggers]

\* values as the SDK sees them
SdkString(t) == [kind |-> "string", text |-> t]
SdkDictionary(t) == [kind |-> "dictionary", text |-> t]

\* sync ?: true, sync?.boolValue ?? true
SyncOrTrue(b) == IF b = "null" THEN TRUE ELSE b = "true"

\* Boolean? / NSNumber? after SdkNilIfNSNull
OptionalBool(b) == IF b = "null" THEN Nil ELSE Some(b = "true")

\* SdkModule.kt ReadableMap?.toMapOrNull: toHashMap, null when empty
ToMapOrNull(m) ==
  IF m.null \/ m.entries = {} THEN Nil
  ELSE Some({<<e[1], SdkString(e[2])>> : e \in m.entries})

\* Converter.toKotlinMap: null for null, every entry kept
ToKotlinMap(m) ==
  IF m.null THEN Nil
  ELSE Some({<<e[1], SdkString(e[2])>> : e \in m.entries})

\* Converter.swift parseJSONIfPossible: a string that starts with { or [
\* and parses as JSON is replaced by the parsed value
ParseJSONIfPossible(t) ==
  IF t = JsonStringify("obj") THEN SdkDictionary(t) ELSE SdkString(t)

\* Converter.swift toAnyDict: nil for nil or empty, values through toAny
ConverterToAnyDict(m) ==
  IF m.null \/ m.entries = {} THEN Nil
  ELSE Some({<<e[1], ParseJSONIfPossible(e[2])>> : e \in m.entries})

\* SdkModule.swift (notification revision) toAnyDict: values copied as is
SwiftToAnyDict(m) ==
  IF m.null \/ m.entries = {} THEN Nil
  ELSE Some({<<e[1], SdkString(e[2])>> : e \in m.entries})

NativeMap(pl, m) ==
  CASE pl = "android" -> ToMapOrNull(m)
    [] pl = "androidNewer" -> ToKotlinMap(m)
    [] pl = "iosEmitter" -> ConverterToAnyDict(m)
    [] pl = "iosNotification" -> SwiftToAnyDict(m)

\* the native pushSubscribe of either platform, up to the SDK call
NativePushSubscribe(pl, a) ==
  [sync |-> SyncOrTrue(a.sync),
   profileFields |-> NativeMap(pl, a.profileFields),
   customFields |-> NativeMap(pl, a.customFields),
   cats |-> Nil,
   replace |-> OptionalBool(a.replace),
   skipTriggers |-> OptionalBool(a.skipTriggers)]

\* configuration fields: key left out, null, or a value
Absent == [tag |-> "absent"]
ConfigValues(S) == {Absent, JsNull} \cup {JsValue(x) : x \in S}

RnConfigs == [rToken : ConfigValues({"rt"}),
              enableLogging : ConfigValues({TRUE}),
              android_usingService : ConfigValues({TRUE})]

\* hasKey(k) && !isNull(k) ? get(k) : null, and `as? T` on the iOS side
GetOrNull(f) == IF f.tag = "value" THEN Some(f.v) ELSE Nil

\* AltcraftRnConfigMapper.buildConfiguration (both Android revisions)
AndroidBuildConfiguration(c) ==
  [rToken |-> GetOrNull(c.rToken),
   enableLogging |-> GetOrNull(c.enableLogging),
   usingService |-> IF c.android_usingService.tag = "value"
                    THEN Some(c.android_usingService.v)
                    ELSE Some(FALSE)]

\* SdkConvertAltcraftConfigToNSDictionary, then initialize in Swift: the
\* android_ keys are not read
SwiftBuildConfiguration(c) ==
  [rToken |-> GetOrNull(c.rToken),
   enableLogging |-> GetOrNull(c.enableLogging),
   usingService |-> Nil]

AgInit ==
  /\ platform \in PromisePlatforms
  /\ tokenProvidersInstalled = FALSE
  /\ EvStateInit
  /\ PrStateInit
  /\ InStateInit
  /\ CaStateInit
  /\ PmStateInit
  /\ PyStateInit
  /\ SmStateInit
  /\ RsStateInit
  /\ AgStateInit
  /\ RcStateInit
  /\ LkStateInit
  /\ StStateInit
  /\ LsStateInit
  /\ EmStateInit
  /\ TpStateInit
  /\ UdStateInit
  /\ CtStateInit

notArguments == <<platform, tokenProvidersInstalled, evState, prState, inState, caState,
                  pmState, pyState, smState, rsState, ctState, udState, tpState, emState, lsState, stState, lkState, rcState>>

\* pushSubscribe(sync, profileFields, customFields, null, replace, skipTriggers)
pushSubscribe(sync, profileFields, customFields, replace, skipTriggers) ==
  /\ jsCall = Nil
  /\ jsCall' = Some([sync |-> sync, profileFields |-> profileFields,
                     customFields |-> customFields, replace |-> replace,
                     skipTriggers |-> skipTriggers])
  /\ sdkCall' = Some(NativePushSubscribe(platform,
                       FacadePushSubscribe(sync, profileFields, customFields,
                                           replace, skipTriggers)))
  /\ UNCHANGED <<rnConfig, builderCall>>
  /\ UNCHANGED notArguments

\* initialize(config) on Android, up to the Builder call
AndroidInitializeArguments(c) ==
  /\ IsAndroid(platform)
  /\ rnConfig = Nil
  /\ rnConfig' = Some(c)
  /\ builderCall' = Some(AndroidBuildConfiguration(c))
  /\ UNCHANGED <<jsCall, sdkCall>>
  /\ UNCHANGED notArguments

\* initialize(config) on iOS, up to the Builder call
SwiftInitializeArguments(c) ==
  /\ ~IsAndroid(platform)
  /\ rnConfig = Nil
  /\ rnConfig' = Some(c)
  /\ builderCall' = Some(SwiftBuildConfiguration(c))
  /\ UNCHANGED <<jsCall, sdkCall>>
  /\ UNCHANGED notArguments

AgNext ==
  \/ \E sy \in JsSyncArgs, pf \in SubscribeMaps, cf \in CustomMaps,
        r \in JsBoolArgs, st \in JsBoolArgs :
       pushSubscribe(sy, pf, cf, r, st)
  \/ \E c \in RnConfigs : AndroidInitializeArguments(c)
  \/ \E c \in RnConfigs : SwiftInitializeArguments(c)

SpecArguments == AgInit /\ [][AgNext]_vars

\* ==================================================== category conversion
\* a category entry as an RN map: name and title present or not
CategoryMaps == [name : Optional({"vip", "news"}), title : Optional({"t"})]

CategoryArrays == UNION {[1..n -> CategoryMaps] : n \in 0..MaxCats}

\* DataClasses.CategoryData / CategoryData built from a map entry
CategoryData(item) == [name |-> item.name, title |-> item.title]

HasName(item) == item.name # Nil

\* Converter.kt toCategoryListOrNull: null for null, an entry is added only
\* if it has a name, the list is returned even when empty
ConverterToCategoryListOrNull(cats) ==
  IF cats = Nil THEN Nil
  ELSE LET kept == SelectSeq(cats.v, HasName)
       IN Some([i \in 1..Len(kept) |-> CategoryData(kept[i])])

\* SdkModule.kt ReadableArray?.toCategoryListOrNull: every map entry is
\* added, name null when missing; null for null or empty
SdkModuleToCategoryListOrNull(cats) ==
  IF cats = Nil \/ Len(cats.v) = 0 THEN Nil
  ELSE Some([i \in 1..Len(cats.v) |-> CategoryData(cats.v[i])])

\* Converter.swift toCats: `if name == nil { continue }`, nil when empty
ConverterToCats(cats) ==
  IF cats = Nil THEN Nil
  ELSE LET kept == SelectSeq(cats.v, HasName)
       IN IF Len(kept) = 0 THEN Nil
          ELSE Some([i \in 1..Len(kept) |-> CategoryData(kept[i])])

\* SdkModule.swift toCats (notification revision): every dictionary entry
\* is appended, nil when empty
SdkModuleToCats(cats) ==
  IF cats = Nil \/ Len(cats.v) = 0 THEN Nil
  ELSE Some([i \in 1..Len(cats.v) |-> CategoryData(cats.v[i])])

CatRoutine(r, cats) ==
  CASE r = "ConverterKt" -> ConverterToCategoryListOrNull(cats)
    [] r = "SdkModuleKt" -> SdkModuleToCategoryListOrNull(cats)
    [] r = "ConverterSwift" -> ConverterToCats(cats)
    [] r = "SdkModuleSwift" -> SdkModuleToCats(cats)

CtInit ==
  /\ platform = "android"
  /\ tokenProvidersInstalled = FALSE
  /\ EvStateInit
  /\ PrStateInit
  /\ InStateInit
  /\ CaStateInit
  /\ PmStateInit
  /\ PyStateInit
  /\ SmStateInit
  /\ RsStateInit
  /\ AgStateInit
  /\ RcStateInit
  /\ LkStateInit
  /\ StStateInit
  /\ LsStateInit
  /\ EmStateInit
  /\ TpStateInit
  /\ UdStateInit
  /\ catsIn \in Optional(CategoryArrays)
  /\ catsOut = NotRun

notCats == <<platform, tokenProvidersInstalled, evState, prState, inState, caState,
             pmState, pyState, smState, rsState, agState, udState, tpState, emState, lsState, stState, lkState, rcState>>

\* one routine converts the array
ConvertCats(r) ==
  /\ ~catsOut[r].ran
  /\ catsOut' = [catsOut EXCEPT ![r] = [ran |-> TRUE, list |-> CatRoutine(r, catsIn)]]
  /\ UNCHANGED catsIn
  /\ UNCHANGED notCats

CtNext == \E r \in CatRoutines : ConvertCats(r)

SpecCats == CtInit /\ [][CtNext]_vars

\* ====================================================== key-value storage
StoreKeys == {"k", "j"}

\* keys as the app passes them: plain, padded with blanks, blank only
KeyArgs == {"k", " k ", "j", "  "}

\* key.trim() / key.trimmingCharacters(in: .whitespacesAndNewlines)
Trim(key) ==
  CASE key = " k " -> "k"
    [] key = "  " -> ""
    [] OTHER -> key

\* Utilities.toUserDefaultsString: null for null/undefined, String(value)
\* for string/number/boolean, else JSON.stringify(value), String(value) if
\* that throws (a bigint)
ToUserDefaultsString(v) ==
  IF IsNullish(v) THEN "<null>"
  ELSE IF v \in {"str", "num", "bool"} THEN JsString(v)
  ELSE IF v = "bigint" THEN JsString(v)
  ELSE JsonStringify(v)

\* what Android's setUserDefaultsValue puts for a non-null string
AndroidStored(str) ==
  CASE str = "{\"x\":1}" -> "putString"
    [] str = "true" -> "putBoolean"
    [] str \in {"1", "10"} -> "putLong"
    [] OTHER -> "putString"

\* Converter.toPropertyListValue of a non-nil string: the string, or the
\* parsed object when it is JSON text
SwiftStored(str) ==
  IF ParseJSONIfPossible(str).kind = "dictionary" THEN "dictionary" ELSE "string"

UdInit ==
  /\ platform \in {"androidNewer", "iosEmitter"}
  /\ tokenProvidersInstalled = FALSE
  /\ EvStateInit
  /\ PrStateInit
  /\ InStateInit
  /\ CaStateInit
  /\ PmStateInit
  /\ PyStateInit
  /\ SmStateInit
  /\ RsStateInit
  /\ AgStateInit
  /\ RcStateInit
  /\ LkStateInit
  /\ StStateInit
  /\ LsStateInit
  /\ EmStateInit
  /\ TpStateInit
  /\ CtStateInit
  /\ UdStateInit

notStorage == <<platform, tokenProvidersInstalled, evState, prState, inState, caState,
                pmState, pyState, smState, rsState, agState, ctState, tpState, emState, lsState, stState, lkState, rcState>>

Given(v) == IF IsNullish(v) THEN "null" ELSE "value"

Remember(key, v) ==
  IF Trim(key) \in StoreKeys THEN [udLast EXCEPT ![Trim(key)] = Given(v)] ELSE udLast

\* the native setUserDefaultsValue with the string (or null) it was given
NativeSetUserDefaultsValue(pl, key, str) ==
  IF Trim(key) = "" THEN udStore
  ELSE IF str = "<null>" THEN [udStore EXCEPT ![Trim(key)] = "absent"]
  ELSE [udStore EXCEPT ![Trim(key)] =
          IF IsAndroid(pl) THEN AndroidStored(str) ELSE SwiftStored(str)]

\* setUserDefaultsValue(suiteName, key, value), the value's string form
\* being a string or null
setUserDefaultsValue(key, v) ==
  /\ udCalls < MaxStoreCalls
  /\ ToUserDefaultsString(v) # Undefined
  /\ udCalls' = udCalls + 1
  /\ udLast' = Remember(key, v)
  /\ udStore' = NativeSetUserDefaultsValue(platform, key, ToUserDefaultsString(v))
  /\ UNCHANGED notStorage

\* setUserDefaultsValue with a value whose string form is undefined (a
\* function, a symbol): the bridge passes null for it, or refuses the
\* argument and the native method is not run
setUserDefaultsValueUndefined(key, v, refused) ==
  /\ udCalls < MaxStoreCalls
  /\ ToUserDefaultsString(v) = Undefined
  /\ udCalls' = udCalls + 1
  /\ udLast' = Remember(key, v)
  /\ udStore' = IF refused THEN udStore
                ELSE NativeSetUserDefaultsValue(platform, key, "<null>")
  /\ UNCHANGED notStorage

UdNext ==
  \/ \E key \in KeyArgs, v \in JsValues : setUserDefaultsValue(key, v)
  \/ \E key \in KeyArgs, v \in JsValues, refused \in BOOLEAN :
       setUserDefaultsValueUndefined(key, v, refused)

SpecStorage == UdInit /\ [][UdNext]_vars

\* ==================================================== push payload intake
PushReceivers == {"r1", "r2"}

\* payloads: null/undefined, {}, {a: "1"}
PushPayloads == {"missing", "empty", "data"}

\* what a receiver's pushHandler does: returns, throws, or calls
\* clearPushReceivers() and returns
HandlerBehaviours == {"returns", "throws", "clears"}

\* !message || Object.keys(message).length === 0
IsEmptyPayload(p) == p \in {"missing", "empty"}

TpInit ==
  /\ platform = "android"
  /\ tokenProvidersInstalled = FALSE
  /\ EvStateInit
  /\ PrStateInit
  /\ InStateInit
  /\ CaStateInit
  /\ PmStateInit
  /\ PyStateInit
  /\ SmStateInit
  /\ RsStateInit
  /\ AgStateInit
  /\ RcStateInit
  /\ LkStateInit
  /\ StStateInit
  /\ LsStateInit
  /\ EmStateInit
  /\ CtStateInit
  /\ UdStateInit
  /\ tpFacade \in {"receivers", "forwardOnly"}
  /\ registeredPushReceivers = <<>>
  /\ tpPc = TpIdle
  /\ tpLog = <<>>
  /\ tpAtStart = Nil
  /\ tpPayload = "none"

notTakePush == <<platform, tokenProvidersInstalled, evState, prState, inState, caState,
                 pmState, pyState, smState, rsState, agState, ctState, udState, emState, lsState, stState, lkState, rcState>>

\* registeredPushReceivers.push(receiver)
registerPushReceiver(r) ==
  /\ tpFacade = "receivers"
  /\ tpPc.pc = "idle"
  /\ Len(registeredPushReceivers) < MaxReceivers
  /\ registeredPushReceivers' = Append(registeredPushReceivers, r)
  /\ UNCHANGED <<tpFacade, tpPc, tpLog, tpAtStart, tpPayload>>
  /\ UNCHANGED notTakePush

\* registeredPushReceivers.length = 0
clearPushReceivers ==
  /\ tpFacade = "receivers"
  /\ tpPc.pc = "idle"
  /\ registeredPushReceivers # <<>>
  /\ registeredPushReceivers' = <<>>
  /\ UNCHANGED <<tpFacade, tpPc, tpLog, tpAtStart, tpPayload>>
  /\ UNCHANGED notTakePush

\* takePush(message) up to the first receiver: the guard, the native call,
\* the choice of the array to iterate
takePush(p) ==
  /\ tpPc.pc = "idle"
  /\ tpPayload' = p
  /\ tpAtStart' = Some(registeredPushReceivers)
  /\ tpLog' = IF IsEmptyPayload(p) THEN <<>> ELSE <<"native">>
  /\ tpPc' = IF IsEmptyPayload(p) \/ tpFacade = "forwardOnly" THEN TpIdle
             ELSE [pc |-> "dispatch", idx |-> 1,
                   own |-> Len(registeredPushReceivers) > 0]
  /\ UNCHANGED <<tpFacade, registeredPushReceivers>>
  /\ UNCHANGED notTakePush

\* the array the for...of loop walks: the receiver array itself, or a new
\* array holding a DefaultPushReceiver
Iterated == IF tpPc.own THEN registeredPushReceivers ELSE <<"default">>

\* one turn of the loop: receiver.pushHandler(message) inside try/catch,
\* then the iterator's next(), which reads the array's current length
PushHandlerTurn(how) ==
  /\ tpPc.pc = "dispatch"
  /\ tpPc.idx <= Len(Iterated)
  /\ tpLog' = Append(tpLog, Iterated[tpPc.idx])
  /\ registeredPushReceivers' = IF how = "clears" THEN <<>> ELSE registeredPushReceivers
  /\ LET left == IF tpPc.own /\ how = "clears" THEN 0 ELSE Len(Iterated)
     IN tpPc' = IF tpPc.idx + 1 > left THEN TpIdle
                ELSE [tpPc EXCEPT !.idx = tpPc.idx + 1]
  /\ UNCHANGED <<tpFacade, tpAtStart, tpPayload>>
  /\ UNCHANGED notTakePush

TpNext ==
  \/ \E r \in PushReceivers : registerPushReceiver(r)
  \/ clearPushReceivers
  \/ \E p \in PushPayloads : takePush(p)
  \/ \E how \in HandlerBehaviours : PushHandlerTurn(how)

SpecTakePush == TpInit /\ [][TpNext]_vars

\* =============================================== iOS event emitter buffer
EmInit ==
  /\ platform = "iosEmitter"
  /\ tokenProvidersInstalled = FALSE
  /\ EvStateInit
  /\ PrStateInit
  /\ InStateInit
  /\ CaStateInit
  /\ PmStateInit
  /\ PyStateInit
  /\ SmStateInit
  /\ RsStateInit
  /\ AgStateInit
  /\ RcStateInit
  /\ LkStateInit
  /\ StStateInit
  /\ LsStateInit
  /\ CtStateInit
  /\ UdStateInit
  /\ TpStateInit
  /\ EmStateInit

notEmitter == <<platform, tokenProvidersInstalled, evState, prState, inState, caState,
                pmState, pyState, smState, rsState, agState, ctState, udState, tpState, lsState, stState, lkState, rcState>>

DeliverBlock(e) == [kind |-> "deliver", ev |-> e]
FlushBlock == [kind |-> "flush", ev |-> 0]

\* the deliver closure of emit, run on the main thread: sendEvent if the
\* emitter exists, else buffer(name:body:)
EmitterDeliver(e) ==
  /\ emSent' = IF emShared THEN Append(emSent, e) ELSE emSent
  /\ emPending' = IF emShared THEN emPending ELSE Append(emPending, e)

\* flushPendingIfPossible on the main thread
EmitterFlush ==
  /\ emSent' = IF emShared THEN emSent \o emPending ELSE emSent
  /\ emPending' = IF emShared THEN <<>> ELSE emPending

\* emit(name:body:) called on the main thread: deliver() at once
EmitOnMainThread ==
  /\ emEmitted < MaxEmits
  /\ emEmitted' = emEmitted + 1
  /\ EmitterDeliver(emEmitted + 1)
  /\ UNCHANGED <<emShared, emMainQueue>>
  /\ UNCHANGED notEmitter

\* emit(name:body:) called on another thread: DispatchQueue.main.async
EmitOnBackgroundThread ==
  /\ emEmitted < MaxEmits
  /\ emEmitted' = emEmitted + 1
  /\ emMainQueue' = Append(emMainQueue, DeliverBlock(emEmitted + 1))
  /\ UNCHANGED <<emShared, emPending, emSent>>
  /\ UNCHANGED notEmitter

\* init() on the main thread: _shared = self, then the flush runs at once
EmitterInitOnMainThread ==
  /\ ~emShared
  /\ emShared' = TRUE
  /\ emSent' = emSent \o emPending
  /\ emPending' = <<>>
  /\ UNCHANGED <<emMainQueue, emEmitted>>
  /\ UNCHANGED notEmitter

\* init() on another thread: _shared = self, the flush is dispatched to the
\* main queue
EmitterInitOnBackgroundThread ==
  /\ ~emShared
  /\ emShared' = TRUE
  /\ emMainQueue' = Append(emMainQueue, FlushBlock)
  /\ UNCHANGED <<emPending, emSent, emEmitted>>
  /\ UNCHANGED notEmitter

\* the main queue runs its next block
EmitterMainQueueRun ==
  /\ emMainQueue # <<>>
  /\ emMainQueue' = Tail(emMainQueue)
  /\ IF Head(emMainQueue).kind = "deliver"
     THEN EmitterDeliver(Head(emMainQueue).ev)
     ELSE EmitterFlush
  /\ UNCHANGED <<emShared, emEmitted>>
  /\ UNCHANGED notEmitter

EmNext ==
  \/ EmitOnMainThread
  \/ EmitOnBackgroundThread
  \/ EmitterInitOnMainThread
  \/ EmitterInitOnBackgroundThread
  \/ EmitterMainQueueRun

SpecEmitter == EmInit /\ [][EmNext]_vars

\* ====================================================== JS event listener
\* args[0] as the channel delivers it: an event object, null, undefined
ListenerArgs == {"event", "null", "undefined"}

\* what the user's handler does when called
HandlerOutcomes == {"returns", "throws"}

LsInit ==
  /\ platform = "android"
  /\ tokenProvidersInstalled = FALSE
  /\ EvStateInit
  /\ PrStateInit
  /\ InStateInit
  /\ CaStateInit
  /\ PmStateInit
  /\ PyStateInit
  /\ SmStateInit
  /\ RsStateInit
  /\ AgStateInit
  /\ RcStateInit
  /\ LkStateInit
  /\ StStateInit
  /\ CtStateInit
  /\ UdStateInit
  /\ TpStateInit
  /\ EmStateInit
  /\ LsStateInit

notListener == <<platform, tokenProvidersInstalled, evState, prState, inState, caState,
                 pmState, pyState, smState, rsState, agState, ctState, udState, tpState,
                 emState, stState, lkState, rcState>>

\* subscribeToEvents(handler): the previous listener is removed, a new one
\* wrapping handler is added
ListenerSubscribe(h) ==
  /\ Len(lsLog) < MaxDelivered
  /\ lsHandler' = h
  /\ lsExpected' = h
  /\ UNCHANGED lsLog
  /\ UNCHANGED notListener

\* unsubscribeFromEvent(): the listener is removed
ListenerUnsubscribe ==
  /\ Len(lsLog) < MaxDelivered
  /\ lsHandler # NoHandler
  /\ lsHandler' = NoHandler
  /\ lsExpected' = NoHandler
  /\ UNCHANGED lsLog
  /\ UNCHANGED notListener

\* A listener that calls the handler outside any try/catch.
EventListenerWithoutCatch(arg, how) ==
  /\ Len(lsLog) < MaxDelivered
  /\ lsHandler # NoHandler
  /\ LET called == arg = "event"
     IN lsLog' = Append(lsLog, [arg |-> arg,
                                handler |-> IF called THEN lsHandler ELSE NoHandler,
                                threw |-> called /\ how = "throws",
                                propagated |-> called /\ how = "throws",
                                held |-> lsHandler])
  /\ UNCHANGED <<lsHandler, lsExpected>>
  /\ UNCHANGED notListener

\* the listener added by subscribeToEvents, run for one delivery:
\* const event = args[0] ?? null; if (!event) return;
\* try { handler(event) } catch (e) { console.warn(...) }
EventListener(arg, how) ==
  /\ Len(lsLog) < MaxDelivered
  /\ lsHandler # NoHandler
  /\ LET called == arg = "event"
     IN lsLog' = Append(lsLog, [arg |-> arg,
                                handler |-> IF called THEN lsHandler ELSE NoHandler,
                                threw |-> called /\ how = "throws",
                                propagated |-> FALSE,
                                held |-> lsHandler])
  /\ UNCHANGED <<lsHandler, lsExpected>>
  /\ UNCHANGED notListener

LsNext ==
  \/ \E h \in Handlers : ListenerSubscribe(h)
  \/ ListenerUnsubscribe
  \/ \E arg \in ListenerArgs, how \in HandlerOutcomes : EventListener(arg, how)

SpecListener == LsInit /\ [][LsNext]_vars

\* ============================================== calls made on one promise
SettleOps(pl) == OpsOf(pl) \cup {"initialize"}

\* operations whose promise is settled from the SDK's completion callback;
\* the others settle after the SDK function has returned
SettlesInCallback(pl, op) == op \in CompletionOps(pl) \cup {"initialize"}

StInit ==
  /\ platform \in PromisePlatforms
  /\ tokenProvidersInstalled = FALSE
  /\ EvStateInit
  /\ PrStateInit
  /\ InStateInit
  /\ CaStateInit
  /\ PmStateInit
  /\ PyStateInit
  /\ SmStateInit
  /\ RsStateInit
  /\ AgStateInit
  /\ RcStateInit
  /\ LkStateInit
  /\ CtStateInit
  /\ UdStateInit
  /\ TpStateInit
  /\ EmStateInit
  /\ LsStateInit
  /\ StStateInit

notSettle == <<platform, tokenProvidersInstalled, evState, prState, inState, caState,
               pmState, pyState, smState, rsState, agState, ctState, udState, tpState,
               emState, lsState, lkState, rcState>>

\* the bridge method enters the SDK function (inside try on Android)
SettleEnterSdk(op) ==
  /\ stCall.pc = "idle"
  /\ op \in SettleOps(platform)
  /\ stCall' = [StIdle EXCEPT !.op = op, !.pc = "inSdk"]
  /\ UNCHANGED notSettle

\* the SDK invokes the completion callback, while the SDK function runs or
\* after it has returned or thrown: promise.resolve(null); for initialize
\* promise.reject(ERR_INIT_ERROR, ...) when the result is a failure
SettleSdkCallback(ok) ==
  /\ stCall.pc \in {"inSdk", "returned", "caught"}
  /\ SettlesInCallback(platform, stCall.op)
  /\ stCall.callbacks = 0
  /\ stCall' = [stCall EXCEPT
       !.callbacks = 1,
       !.resolves = IF ok \/ stCall.op # "initialize" THEN @ + 1 ELSE @,
       !.rejects = IF ok \/ stCall.op # "initialize" THEN @ ELSE @ + 1]
  /\ UNCHANGED notSettle

\* the SDK function returns; a call that reports by returning resolves now
SettleSdkReturns ==
  /\ stCall.pc = "inSdk"
  /\ stCall' = [stCall EXCEPT
       !.pc = "returned",
       !.resolves = IF SettlesInCallback(platform, stCall.op) THEN @ ELSE @ + 1]
  /\ UNCHANGED notSettle

\* Android: the SDK function throws; catch (e: Exception) { promise.reject(...) }
SettleSdkThrows ==
  /\ IsAndroid(platform)
  /\ stCall.pc = "inSdk"
  /\ stCall' = [stCall EXCEPT !.pc = "caught", !.rejects = @ + 1]
  /\ UNCHANGED notSettle

StNext ==
  \/ \E op \in PromiseOps \cup {"initialize"} : SettleEnterSdk(op)
  \/ \E ok \in BOOLEAN : SettleSdkCallback(ok)
  \/ SettleSdkReturns
  \/ SettleSdkThrows

SpecSettle == StInit /\ [][StNext]_vars

\* ========================================================= iOS module lock
PushCredentials == {"fcm", "hms", "apns"}

\* the providers that have a del closure
DeletableCredentials == {"fcm", "hms"}

LkInit ==
  /\ platform = "iosNotification"
  /\ tokenProvidersInstalled = FALSE
  /\ EvStateInit
  /\ PrStateInit
  /\ InStateInit
  /\ CaStateInit
  /\ PmStateInit
  /\ PyStateInit
  /\ SmStateInit
  /\ RsStateInit
  /\ AgStateInit
  /\ RcStateInit
  /\ CtStateInit
  /\ UdStateInit
  /\ TpStateInit
  /\ EmStateInit
  /\ LsStateInit
  /\ StStateInit
  /\ LkStateInit

notLock == <<platform, tokenProvidersInstalled, evState, prState, inState, caState,
             pmState, pyState, smState, rsState, agState, ctState, udState, tpState,
             emState, lsState, stState, rcState>>

\* get closure: self.lock.lock(); defer { self.lock.unlock() }
ProviderGetLock(c) ==
  /\ lkSdk.pc = "idle"
  /\ lkHolder = "none"
  /\ lkHolder' = "sdk"
  /\ lkSdk' = [pc |-> "getLocked", cred |-> c]
  /\ UNCHANGED <<lkBridge, lkTokens>>
  /\ UNCHANGED notLock

\* get closure: completion(self.fcm), called before the deferred unlock
ProviderGetCompletion ==
  /\ lkSdk.pc = "getLocked"
  /\ lkSdk' = [lkSdk EXCEPT !.pc = "getCompletion"]
  /\ UNCHANGED <<lkHolder, lkBridge, lkTokens>>
  /\ UNCHANGED notLock

\* the completion given to get returns; the closure ends and the deferred
\* unlock runs
ProviderGetReturn ==
  /\ lkSdk.pc = "getCompletion"
  /\ lkHolder' = "none"
  /\ lkSdk' = LkIdle
  /\ UNCHANGED <<lkBridge, lkTokens>>
  /\ UNCHANGED notLock

\* del closure: self.lock.lock(); self.fcm = nil; self.lock.unlock(), then
\* completion(true) is called
ProviderDel(c) ==
  /\ lkSdk.pc = "idle"
  /\ c \in DeletableCredentials
  /\ lkHolder = "none"
  /\ lkTokens' = [lkTokens EXCEPT ![c] = FALSE]
  /\ lkSdk' = [pc |-> "delCompletion", cred |-> c]
  /\ UNCHANGED <<lkHolder, lkBridge>>
  /\ UNCHANGED notLock

\* the completion given to del returns
ProviderDelReturn ==
  /\ lkSdk.pc = "delCompletion"
  /\ lkSdk' = LkIdle
  /\ UNCHANGED <<lkHolder, lkBridge, lkTokens>>
  /\ UNCHANGED notLock

\* a completion calls a token setter on its own thread; the setter's first
\* lock.lock() is reached with the lock free: it stores the token and unlocks
CompletionCallsSetter(c) ==
  /\ lkSdk.pc \in {"getCompletion", "delCompletion"}
  /\ lkHolder = "none"
  /\ lkTokens' = [lkTokens EXCEPT ![c] = TRUE]
  /\ UNCHANGED <<lkHolder, lkSdk, lkBridge>>
  /\ UNCHANGED notLock

\* a completion calls a token setter on its own thread while that thread
\* holds the lock: NSLock is not recursive, lock.lock() never returns
CompletionCallsSetterLocked ==
  /\ lkSdk.pc \in {"getCompletion", "delCompletion"}
  /\ lkHolder = "sdk"
  /\ lkSdk' = [lkSdk EXCEPT !.pc = "blocked"]
  /\ UNCHANGED <<lkHolder, lkBridge, lkTokens>>
  /\ UNCHANGED notLock

\* setFCM / setHMS / setAPNS on the bridge thread: lock.lock()
SetterLock(c) ==
  /\ lkBridge.pc = "idle"
  /\ lkHolder = "none"
  /\ lkHolder' = "bridge"
  /\ lkBridge' = [pc |-> "storing", cred |-> c]
  /\ UNCHANGED <<lkSdk, lkTokens>>
  /\ UNCHANGED notLock

\* fcm = token; lock.unlock()
SetterStoreUnlock(hasToken) ==
  /\ lkBridge.pc = "storing"
  /\ lkTokens' = [lkTokens EXCEPT ![lkBridge.cred] = hasToken]
  /\ lkHolder' = "none"
  /\ lkBridge' = [lkBridge EXCEPT !.pc = "sdkCall"]
  /\ UNCHANGED lkSdk
  /\ UNCHANGED notLock

\* push.setFCMTokenProvider(...) returns
SetterSdkCallReturns ==
  /\ lkBridge.pc = "sdkCall"
  /\ lkBridge' = LkIdle
  /\ UNCHANGED <<lkHolder, lkSdk, lkTokens>>
  /\ UNCHANGED notLock

LkNext ==
  \/ \E c \in PushCredentials : ProviderGetLock(c)
  \/ ProviderGetCompletion
  \/ ProviderGetReturn
  \/ \E c \in PushCredentials : ProviderDel(c)
  \/ ProviderDelReturn
  \/ \E c \in PushCredentials : CompletionCallsSetter(c)
  \/ CompletionCallsSetterLocked
  \/ \E c \in PushCredentials : SetterLock(c)
  \/ \E hasToken \in BOOLEAN : SetterStoreUnlock(hasToken)
  \/ SetterSdkCallReturns

SpecLock == LkInit /\ [][LkNext]_vars

\* ============================ iOS subscribe / unsubscribe from two threads
RcThreadIds == {"t1", "t2"}

RcInit ==
  /\ platform \in {"iosEmitter", "iosNotification"}
  /\ tokenProvidersInstalled = FALSE
  /\ EvStateInit
  /\ PrStateInit
  /\ InStateInit
  /\ CaStateInit
  /\ PmStateInit
  /\ PyStateInit
  /\ SmStateInit
  /\ RsStateInit
  /\ AgStateInit
  /\ CtStateInit
  /\ UdStateInit
  /\ TpStateInit
  /\ EmStateInit
  /\ LsStateInit
  /\ StStateInit
  /\ LkStateInit
  /\ RcStateInit

notRace == <<platform, tokenProvidersInstalled, evState, prState, inState, caState,
             pmState, pyState, smState, rsState, agState, ctState, udState, tpState,
             emState, lsState, stState, lkState>>

\* subscribeToEvents, the part under the lock: already = eventsSubscribed;
\* if !already { eventsSubscribed = true }; if already { return }
RaceSubscribeFlag(t) ==
  /\ rcThreads[t].pc = "idle"
  /\ rcCalls < MaxRaceCalls
  /\ rcCalls' = rcCalls + 1
  /\ rcSubscribed' = TRUE
  /\ rcThreads' = [rcThreads EXCEPT ![t] =
                     IF rcSubscribed THEN [pc |-> "idle", op |-> "none"]
                     ELSE [pc |-> "sdk", op |-> "subscribe"]]
  /\ UNCHANGED rcSdkActive
  /\ UNCHANGED notRace

\* subscribeToEvents: SDKEvents.shared.subscribe { ... }
RaceSubscribeSdk(t) ==
  /\ rcThreads[t] = [pc |-> "sdk", op |-> "subscribe"]
  /\ rcSdkActive' = TRUE
  /\ rcThreads' = [rcThreads EXCEPT ![t] = [pc |-> "idle", op |-> "none"]]
  /\ UNCHANGED <<rcSubscribed, rcCalls>>
  /\ UNCHANGED notRace

\* unsubscribeFromEvent, the part under the lock: eventsSubscribed = false
RaceUnsubscribeFlag(t) ==
  /\ rcThreads[t].pc = "idle"
  /\ rcCalls < MaxRaceCalls
  /\ rcCalls' = rcCalls + 1
  /\ rcSubscribed' = FALSE
  /\ rcThreads' = [rcThreads EXCEPT ![t] = [pc |-> "sdk", op |-> "unsubscribe"]]
  /\ UNCHANGED rcSdkActive
  /\ UNCHANGED notRace

\* unsubscribeFromEvent: SDKEvents.shared.unsubscribe()
RaceUnsubscribeSdk(t) ==
  /\ rcThreads[t] = [pc |-> "sdk", op |-> "unsubscribe"]
  /\ rcSdkActive' = FALSE
  /\ rcThreads' = [rcThreads EXCEPT ![t] = [pc |-> "idle", op |-> "none"]]
  /\ UNCHANGED <<rcSubscribed, rcCalls>>
  /\ UNCHANGED notRace

RcNext ==
  \/ \E t \in RcThreadIds : RaceSubscribeFlag(t)
  \/ \E t \in RcThreadIds : RaceSubscribeSdk(t)
  \/ \E t \in RcThreadIds : RaceUnsubscribeFlag(t)
  \/ \E t \in RcThreadIds : RaceUnsubscribeSdk(t)

SpecSubscribeRace == RcInit /\ [][RcNext]_vars

\* ================================ provider registration vs. stored token
\* The SDK calls the registered provider's deleteToken.
\* iOS fcmProvider / hmsProvider del: lock; fcm = nil; unlock; completion(true).
\* Android RnFCMProvider / RnHMSProvider.deleteToken: token = null; completion(true).
\* Neither touches the registration held by the SDK.
ProviderDeleteToken(c) ==
  /\ sdkProvider[c] = StableProvider
  /\ value' = [value EXCEPT ![c] = NullToken]
  /\ UNCHANGED notProviders
  /\ UNCHANGED <<platform, tokenProvidersInstalled, evState, th, jwtProviderInstalled,
                 sdkProvider, jwtInstalls, tokenInstalls, lastSet, setterCalls>>

RegNext ==
  \/ PrNext
  \/ \E c \in DeletableCredentials : ProviderDeleteToken(c)

SpecRegistration == PrInit /\ [][RegNext]_vars

\* ===================== iOS event order once the emitter exists
\* Init: SDKEventEmitter.init has run (_shared is set, nothing is buffered)
\* and subscribeToEvents has installed the closure that calls
\* SDKEventEmitter.emit for every SDK event.
OrInit ==
  /\ platform = "iosEmitter"
  /\ tokenProvidersInstalled = FALSE
  /\ EvStateInit
  /\ PrStateInit
  /\ InStateInit
  /\ CaStateInit
  /\ PmStateInit
  /\ PyStateInit
  /\ SmStateInit
  /\ RsStateInit
  /\ AgStateInit
  /\ CtStateInit
  /\ UdStateInit
  /\ TpStateInit
  /\ LsStateInit
  /\ StStateInit
  /\ LkStateInit
  /\ RcStateInit
  /\ emShared = TRUE
  /\ emPending = <<>>
  /\ emMainQueue = <<>>
  /\ emSent = <<>>
  /\ emEmitted = 0

OrNext ==
  \/ EmitOnMainThread
  \/ EmitOnBackgroundThread
  \/ EmitterMainQueueRun

SpecOrdering == OrInit /\ [][OrNext]_vars

\* ================================================================ claims
Quiescent == callQueue = <<>> /\ npc = "idle"

\* The facade was called with a handler while the previous call's
\* subscription was still active.
Resubscribed ==
  /\ Len(jsHistory) >= 2
  /\ jsHistory[Len(jsHistory)] \in Handlers
  /\ jsHistory[Len(jsHistory) - 1] \in Handlers

SdkSubscriptions == IF sdkSubscriber = 0 THEN {} ELSE {sdkSubscriber}

NotSubscribed ==
  /\ listeners = {}
  /\ eventsSubscription = 0
  /\ ~eventsSubscribed
  /\ sdkSubscriber = 0
  /\ observers = 0
  /\ ~gSdkEventsObserver

\* C1: every event dispatched on the JS thread after a subscribeToEvents(h)
\* call invokes h, the handler of the latest call, exactly once and invokes
\* no earlier handler: after subscribeToEvents(h1); subscribeToEvents(h2)
\* only h2 is called, once per event.
C1_OnlyLatestHandlerReceives ==
  \A i \in 1..Len(dispatchLog) :
     dispatchLog[i].latest # NoHandler
        => dispatchLog[i].invoked = <<dispatchLog[i].latest>>

C1_Witness ==
  /\ Len(jsHistory) >= 2 /\ jsHistory[1] = "h1" /\ jsHistory[2] = "h2"
  /\ \E i \in 1..Len(dispatchLog) :
        dispatchLog[i].latest = "h2" /\ dispatchLog[i].invoked = <<"h2">>

C3_ResubscribeReestablishesBothLayers ==
  (Resubscribed /\ Quiescent) =>
     /\ listeners = {[id |-> nextListener, handler |-> LatestHandler]}
     /\ sdkSubscriber # 0
     /\ sdkSubscriber = Cardinality({i \in 1..Len(jsHistory) : jsHistory[i] \in Handlers})

\* C3 (amended): a subscribeToEvents call made while a subscription is
\* active removes the prior JS listener before it adds the new one, and once
\* the call has run the bridge has exactly one active subscription in each
\* layer: one JS listener (the newest), one native SDK subscription, the iOS
\* flag set, one observer in the notification-based revision.  The native
\* layer need not have re-established anything.
C3_ResubscribeEndsWithOneSubscription ==
  (Resubscribed /\ Quiescent) =>
     /\ listeners = {[id |-> nextListener, handler |-> LatestHandler]}
     /\ eventsSubscription = nextListener
     /\ Cardinality(SdkSubscriptions) = 1
     /\ (IsIos => eventsSubscribed)
     /\ (platform = "iosNotification" => observers = 1 /\ gSdkEventsObserver)

C3_Witness ==
  /\ Resubscribed /\ Quiescent
  /\ IsIos
  /\ jsHistory = <<"h1", "h2">>
  /\ sdkSubscriber = 1

\* C4: once the native unsubscribeFromEvent has returned, and until
\* subscribeToEvents is called again, no event is handed to the JS event
\* channel and no handler is invoked.
C4_NoForwardAfterUnsubscribe ==
  [][unsubReturned =>
       /\ Len(jsQueue') <= Len(jsQueue)
       /\ (Len(dispatchLog') > Len(dispatchLog) => Last(dispatchLog').invoked = <<>>)]_vars

\* C5: unsubscribeFromEvent called when not subscribed (as the first call, or
\* right after another unsubscribeFromEvent) raises no error and leaves the
\* bridge not subscribed: no JS listener, flag false, no native subscription.
C5_UnsubscribeWhenNotSubscribedIsNoop ==
  (/\ jsHistory # <<>>
   /\ Last(jsHistory) = "unsub"
   /\ (Len(jsHistory) = 1 \/ jsHistory[Len(jsHistory) - 1] = "unsub"))
  => /\ ~jsError
     /\ listeners = {} /\ eventsSubscription = 0
     /\ (Quiescent => NotSubscribed)

C5_Witness ==
  /\ Quiescent
  /\ Len(jsHistory) = 3
  /\ jsHistory[1] \in Handlers /\ jsHistory[2] = "unsub" /\ jsHistory[3] = "unsub"
  /\ NotSubscribed


AllIdle == \A t \in Callers : th[t].pc = "idle"

\* C6: installJWTProviderIfNeeded registers the JWT provider, and
\* installTokenProvidersIfNeeded the FCM/HMS/APNs providers, at most once per
\* process, whatever the interleaving of their callers.
C6_ProvidersInstalledAtMostOnce ==
  /\ jwtInstalls <= 1
  /\ tokenInstalls <= 1

\* C7: once a setter call has completed (and no other setter runs), a null or
\* empty value has left no provider of that credential type registered in the
\* native SDK, and a non-empty value has left the stable provider registered
\* and returning that value.
C7_EmptyValueUnregistersProvider ==
  \A c \in Credentials :
     (AllIdle /\ lastSet[c] # Unset) =>
        IF IsNilOrEmpty(lastSet[c])
        THEN sdkProvider[c] = NoProvider
        ELSE sdkProvider[c] = StableProvider /\ value[c] = lastSet[c]


MissingApiUrl == promise # "none" /\ cfg.apiUrl \in {"<missing>", "<null>"}

Called(name) == \E i \in 1..Len(nativeCalls) : nativeCalls[i] = name

C9_OutcomeMatchesCause ==
  ipc = "done" =>
     /\ settles = 1
     /\ (promise = "resolved" <=> (Called("initialization") /\ cfg.outcome = "success"))
     /\ (promise = ERR_INIT_ERROR <=> (Called("initialization") /\ cfg.outcome # "success"))
     /\ (promise = ERR_INIT_INVALID_CONFIG <=> ~Called("initialization"))

\* C10: every fire-and-forget bridge call returns normally, whether or not
\* the native SDK raised an exception during it.
C10_ExceptionsSwallowed ==
  \A i \in 1..Len(callResults) : callResults[i].result = "returned"

\* A call's promise was settled by the call's own native outcome.
OwnResult(c) ==
  \/ c.sdk = "completed" /\ c.promise = "resolved"
  \/ /\ c.sdk = "threw"
     /\ c.promise = "rejected" /\ c.code = c.op /\ c.message = c.thrown
  \/ /\ c.sdk = "not_called"
     /\ c.promise = "rejected"
     /\ c.code = ValidationCode(platform, c.op, c.provider) /\ c.code # ""

C13_FailureLeavesSiblingsAlone ==
  \A i \in 1..Len(pcalls) :
     \A j \in pcalls[i].siblings :
        /\ pcalls[j].pc \in {"launched", "waiting", "done"}
        /\ pcalls[j].pc = "done" => OwnResult(pcalls[j])

C13_Witness ==
  \E i, j \in 1..Len(pcalls) :
     /\ j \in pcalls[i].siblings
     /\ pcalls[i].promise = "rejected"
     /\ pcalls[j].pc = "done" /\ pcalls[j].promise = "resolved"

\* C14: a setPushToken call with a non-blank provider and a null token
\* invokes the native deletion function for the provider and never the
\* native set function.
C14_NullTokenTakesDeletionPath ==
  \A k \in 1..Len(sdkOps) :
     LET c == pcalls[sdkOps[k].call]
     IN (c.op = "setPushToken" /\ c.token = NullToken /\ c.provider # "")
           => sdkOps[k].fn = "deleteDeviceToken"

Mapped == nativeEvent # NoEvent /\ payload # NoPayload

\* C15: the payload of every forwarded event carries the tag of the native
\* event's kind: retryError for a retry error, error for any other error,
\* event for everything else, on every platform.
C15_TypeTagFollowsNativeKind ==
  Mapped => payload.type = nativeEvent.kind

\* C16: in every forwarded payload the message is the native message when
\* there is one and otherwise the (non-empty) string rendering of the event,
\* and the code is null exactly when the native event has no code.
C16_MessageAndCodeDefaults ==
  Mapped =>
     /\ nativeEvent.message # NullMessage => payload.message = nativeEvent.message
     /\ nativeEvent.message = NullMessage =>
           payload.message = Rendering(nativeEvent) /\ payload.message # ""
     /\ (payload.code = NullCode <=> nativeEvent.code = NullCode)
     /\ payload.code = nativeEvent.code

KeptKeys(m) == {e[1] : e \in {x \in m.entries : ~IsNullish(x[2])}}

\* C19: toNativeStringMap drops every key whose value is null or undefined
\* and keeps every other key, each with a string value; when nothing is
\* kept, and for null, it returns null and never an empty object.
C19_StringMapDropsNullsAndNeverReturnsEmpty ==
  smBy # "none" =>
     /\ {e[1] : e \in smOutput.entries} = KeptKeys(smInput)
     /\ \A e \in smOutput.entries : e[2] # Undefined
     /\ (smInput.null \/ KeptKeys(smInput) = {}) => smOutput = NullMap
     /\ ~smOutput.null => smOutput.entries # {}

HasNull(obj, key) ==
  /\ obj.tag = "object"
  /\ key \in DOMAIN obj.fields
  /\ obj.fields[key] = JsNull

\* C18: for an envelope whose response is null the object given to JS has
\* the key response with the value null; likewise a null profile inside a
\* response and a null subscription inside a profile appear as keys with
\* the value null.
C18_NullResponseIsExplicitNull ==
  (mappedBy # "none" /\ envelope # Nil) =>
     LET e == envelope.v
     IN /\ e.response = Nil => HasNull(jsResult, "response")
        /\ (e.response # Nil /\ e.response.v.profile = Nil) =>
              HasNull(jsResult.fields.response, "profile")
        /\ (e.response # Nil /\ e.response.v.profile # Nil
              /\ e.response.v.profile.v.subscription = Nil) =>
              HasNull(jsResult.fields.response.fields.profile, "subscription")

C18_Witness ==
  /\ mappedBy = "android"
  /\ envelope = Some([httpCode |-> Some(200), response |-> Nil])
  /\ jsResult = JsObject([httpCode |-> JsValue(200), response |-> JsNull])

NotGiven(f) == f.tag \in {"absent", "null"}

\* C17: every optional configuration field and optional call argument
\* that the caller leaves out or passes as null reaches the native SDK as
\* null; no default is substituted, except for sync.
C17_AbsenceReachesSdkAsNull ==
  /\ builderCall # Nil =>
       /\ NotGiven(rnConfig.v.rToken) => builderCall.v.rToken = Nil
       /\ NotGiven(rnConfig.v.enableLogging) => builderCall.v.enableLogging = Nil
       /\ NotGiven(rnConfig.v.android_usingService) => builderCall.v.usingService = Nil
  /\ sdkCall # Nil =>
       /\ jsCall.v.profileFields = NullMap => sdkCall.v.profileFields = Nil
       /\ jsCall.v.customFields = NullMap => sdkCall.v.customFields = Nil
       /\ jsCall.v.replace = "null" => sdkCall.v.replace = Nil
       /\ jsCall.v.skipTriggers = "null" => sdkCall.v.skipTriggers = Nil

GivenEntries(m) == {e \in m.entries : ~IsNullish(e[2])}

\* C20: a pushSubscribe call with a null or left-out sync reaches the SDK
\* with sync = true, every profile field value reaches it as the string
\* form of the value ({a: 1} as {"a": "1"}), and the null arguments stay
\* null.
C20_SyncDefaultsAndFieldsStringified ==
  sdkCall # Nil =>
    /\ jsCall.v.sync \in {"undefined", "null"} => sdkCall.v.sync = TRUE
    /\ (~jsCall.v.profileFields.null /\ GivenEntries(jsCall.v.profileFields) # {}) =>
         sdkCall.v.profileFields =
           Some({<<e[1], SdkString(UtilitiesStringOf(e[2]))>> :
                   e \in GivenEntries(jsCall.v.profileFields)})
    /\ jsCall.v.customFields = NullMap => sdkCall.v.customFields = Nil
    /\ sdkCall.v.cats = Nil
    /\ jsCall.v.replace = "null" => sdkCall.v.replace = Nil
    /\ jsCall.v.skipTriggers = "null" => sdkCall.v.skipTriggers = Nil

\* the scenario of C20 as such: pushSubscribe(null, {a: 1}, null, null, null, null)
C20_ScenarioReached ==
  /\ jsCall = Some([sync |-> "null", profileFields |-> JsMap({<<"a", "num">>}),
                    customFields |-> NullMap, replace |-> "null",
                    skipTriggers |-> "null"])
  /\ sdkCall = Some([sync |-> TRUE,
                     profileFields |-> Some({<<"a", SdkString("1")>>}),
                     customFields |-> Nil, cats |-> Nil,
                     replace |-> Nil, skipTriggers |-> Nil])

PlatformRoutines == {{"ConverterKt", "SdkModuleKt"}, {"ConverterSwift", "SdkModuleSwift"}}

Names(list) == IF list = Nil THEN <<>> ELSE [i \in 1..Len(list.v) |-> list.v[i].name]

NamedInput == IF catsIn = Nil THEN <<>>
              ELSE [i \in 1..Len(SelectSeq(catsIn.v, HasName)) |->
                      Some(SelectSeq(catsIn.v, HasName)[i].name.v)]

IsSome(x) == x # Nil

\* C21: on one platform all category conversion routines treat an entry
\* without a name alike (all drop it or all keep it with name null), and
\* the entries that have a name are kept in input order.
C21_NamelessEntriesTreatedAlikePerPlatform ==
  /\ \A rs \in PlatformRoutines : \A r1 \in rs, r2 \in rs :
       (catsOut[r1].ran /\ catsOut[r2].ran) =>
         Names(catsOut[r1].list) = Names(catsOut[r2].list)
  /\ \A r \in CatRoutines :
       catsOut[r].ran => SelectSeq(Names(catsOut[r].list), IsSome) = NamedInput

\* C22: after any sequence of setUserDefaultsValue calls a key is in the
\* store exactly when the last call made with that key (trimmed) carried a
\* value other than null/undefined; a call with a blank key changes nothing.
C22_KeyPresentIffLastValueNonNull ==
  \A k \in StoreKeys :
    /\ udLast[k] = "none" => udStore[k] = "absent"
    /\ udLast[k] = "value" => udStore[k] # "absent"
    /\ udLast[k] = "null" => udStore[k] = "absent"

TakePushReturned == tpPc.pc = "idle" /\ tpAtStart # Nil

\* C23: a takePush with an empty or missing payload does nothing; with a
\* non-empty payload it calls the native module once, first, and then
\* invokes every receiver registered at the time of the call once, in
\* registration order, or the default receiver if none is registered.
C23_NativeFirstThenEveryReceiverOnce ==
  TakePushReturned =>
    IF IsEmptyPayload(tpPayload) THEN tpLog = <<>>
    ELSE tpLog = <<"native">> \o
                   (IF tpAtStart.v = <<>> THEN <<"default">> ELSE tpAtStart.v)

\* C24: the events passed to the emitter are passed in the order they were
\* emitted, none twice, buffered ones before later ones; once the emitter
\* exists and the main queue is empty every emitted event has been passed.
C24_BufferedEventsDeliveredOnceInOrder ==
  /\ \A i \in 1..Len(emSent), j \in 1..Len(emSent) : i < j => emSent[i] < emSent[j]
  /\ (emShared /\ emMainQueue = <<>>) => Len(emSent) = emEmitted

\* C25: no exception of the user's handler leaves the listener, the
\* listener stays subscribed with the handler of the last subscribe call,
\* every delivered event object is given to that handler, and a null or
\* undefined payload is dropped without calling the handler.
C25_HandlerErrorKeepsSubscription ==
  /\ lsHandler = lsExpected
  /\ \A i \in 1..Len(lsLog) :
       /\ ~lsLog[i].propagated
       /\ lsLog[i].arg = "event" => lsLog[i].handler = lsLog[i].held
       /\ lsLog[i].arg # "event" => lsLog[i].handler = NoHandler

C25_Witness ==
  /\ Len(lsLog) = 3
  /\ lsLog[1].threw /\ lsLog[1].handler = "h1"
  /\ lsLog[2].arg = "null" /\ lsLog[2].handler = NoHandler
  /\ lsLog[3].arg = "event" /\ lsLog[3].handler = "h1"
  /\ lsHandler = "h1"

NativeCallCompleted ==
  IF SettlesInCallback(platform, stCall.op) THEN stCall.callbacks > 0
  ELSE stCall.pc = "returned"

\* C26: on one promise the bridge makes at most one resolve or reject call,
\* whatever the SDK function does (also when it calls the completion
\* callback and then throws), and exactly one once the native call has
\* completed.
C26_PromiseSettledAtMostOnce ==
  /\ stCall.resolves + stCall.rejects <= 1
  /\ NativeCallCompleted => stCall.resolves + stCall.rejects = 1

\* C27: the thread that holds the module's lock is never inside a
\* completion callback or an SDK call, and no thread waits for the lock
\* forever.
C27_LockNotHeldAcrossCallbacks ==
  /\ lkHolder = "sdk" => lkSdk.pc \notin {"getCompletion", "delCompletion", "blocked"}
  /\ lkHolder = "bridge" => lkBridge.pc # "sdkCall"
  /\ lkSdk.pc # "blocked"

RaceQuiescent == \A t \in RcThreadIds : rcThreads[t].pc = "idle"

\* C28: whenever no subscribeToEvents / unsubscribeFromEvent call is in
\* progress on iOS, eventsSubscribed is true exactly when the SDK event
\* subscription is active.
C28_FlagMatchesSdkSubscriptionWhenQuiescent ==
  RaceQuiescent => (rcSubscribed <=> rcSdkActive)

PushCredentialsOf(pl) == IF IsAndroid(pl) THEN {"fcm", "hms"} ELSE {"fcm", "hms", "apns"}

\* C29: whenever no setter or installation is in progress, the provider of
\* each push credential type is registered with the SDK exactly when the
\* stored token of that type is non-empty.
C29_RegisteredIffTokenStored ==
  AllIdle =>
    \A c \in PushCredentialsOf(platform) :
       (sdkProvider[c] = StableProvider) <=> ~IsNilOrEmpty(value[c])

Ascending(s) == \A i \in 1..Len(s) : \A j \in 1..Len(s) : i < j => s[i] < s[j]

\* C30: with the emitter in place and the subscription active, the events
\* handed to the JS event channel are in the order the SDK emitted them,
\* whichever threads they were emitted on.
C30_EventsReachJsInEmissionOrder ==
  (emShared /\ emPending = <<>>) => Ascending(emSent)

====
